---- MODULE Spec2Model ----
(***************************************************************************)
(* TIAZip export of the Atari 2600 exporter: code emitter, span            *)
(* compressor, control-flow rewriter, return fix-up, validator, Huffman    *)
(* tree builder and Bitstream.                                             *)
(*                                                                         *)
(* Vectors of the source are sequences here; the source indexes from 0,    *)
(* so every access goes through At/Put, which shift the index by one.      *)
(***************************************************************************)
EXTENDS Integers, Sequences, FiniteSets, TLC

VARIABLES
  pc,                      \* position of the pipeline
  codeSequence,            \* the uncompressed code sequence
  i,                       \* loop index of the greedy parse / of the span traversal
  copyMap, branchFrequencyMap, spans, currentSpan,
  skipMap,
  labels, end, spanIdx, repeatSpan,
  compressedCodeSequence, spanSequence,
  \* return fix-up replay of compressCodeSequence
  maxOffset, returnAddress, nextReadAddress, nextSpanAddress,
  \* validateCodeSequence
  vNextReadAddress, it, compareAddress, vMaxOffset, vReturnAddress,
  emitted,                 \* history: the non-control codes the validator has read
  \* the conversion loop of writeTrackDataTIAZip
  last,                    \* the last committed ChannelState
  call,                    \* history: the latest call of encodeChannelStateCodes
  \* buildHuffmanTree and HuffmanTree::buildIndex
  frequencyMap, limit, literal,
  nodes,                   \* the HuffmanTree objects allocated so far; a pointer is an index
  heap,                    \* the priority queue of roots
  literal_weight,
  root,                    \* the tree buildHuffmanTree returned
  stack, index,            \* of buildIndex
  \* Bitstream, one object in each of two runs on the same input
  buffer,                  \* buffer[r]: the words of run r, a word being the set of its 1 bits
  capacity, pos, endPos,
  bytes,                   \* history: bytes[r], what readByte returned in run r
  \* the captured intervals of one (subsong, channel) pair
  intervals,
  \* DivExportAtari2600::go and the loop over the (subsong, channel) pairs
  numSongs, subsong, channel,
  abortRequested,          \* history: abort() has been called
  diverged,                \* history: validateCodeSequence found a divergence
  goResult,                \* what go() returned
  \* the jump lookup table
  jumpFrequencyMap, jumpHeap, jumpMap, jumpAddresses,
  \* a Bitstream written and then read back bit by bit
  bitsWritten,             \* history: the bits given to writeBit or writeByte
  bitsRead,                \* history: what readBit returned
  \* encodeBitstreamDynamic: the data streams of the (subsong, channel) pairs
  streamDataOffset, positionMap,
  patched                  \* history: the latest inline operand of the patch pass

emitVars == <<last, call>>
huffVars == <<frequencyMap, limit, literal, nodes, heap, literal_weight, root, stack, index>>
bitVars == <<buffer, capacity, pos, endPos, bytes>>
captureVars == <<intervals>>
driverVars == <<numSongs, subsong, channel, abortRequested, diverged, goResult>>
jumpVars == <<jumpFrequencyMap, jumpHeap, jumpMap, jumpAddresses>>
echoVars == <<bitsWritten, bitsRead>>
encodeVars == <<streamDataOffset, positionMap, patched>>
restVars == <<captureVars, driverVars, jumpVars, echoVars, encodeVars>>

vars == <<emitVars, huffVars, bitVars, restVars, pc, codeSequence, i, copyMap, branchFrequencyMap, spans, currentSpan,
          skipMap, labels, end, spanIdx, repeatSpan,
          compressedCodeSequence, spanSequence,
          maxOffset, returnAddress, nextReadAddress, nextSpanAddress,
          vNextReadAddress, it, compareAddress, vMaxOffset, vReturnAddress, emitted>>

-----------------------------------------------------------------------------
(* Bounds *)

MaxLen == 13           \* longest code sequence, the final STOP included
MaxFairLen == 11       \* the same, where termination is checked
MaxVCode == 2          \* validator alone: longest original sequence
MaxVData == 3          \* validator alone: longest data stream
MaxVSpan == 2          \* validator alone: longest span stream
PastEndSlack == 1      \* elements past the end of a vector that can still be read
MaxIntervals == 2      \* intervals converted by one run of the code emitter
MaxDuration == 17      \* a long interval given to the code emitter, in frames

-----------------------------------------------------------------------------
(* Vectors and maps *)

At(v, k) == v[k + 1]
Put(v, k, x) == [v EXCEPT ![k + 1] = x]
Size(v) == Len(v)
Zeros(n) == [k \in 1..n |-> 0]

EmptyMap == [k \in {} |-> 0]

\* std::map<size_t,size_t>::operator[] followed by ++
MapInc(m, k) ==
  IF k \in DOMAIN m THEN [m EXCEPT ![k] = @ + 1]
  ELSE [x \in (DOMAIN m) \cup {k} |-> IF x = k THEN 1 ELSE m[x]]

-----------------------------------------------------------------------------
(* AlphaCode: the 64-bit instruction word, kept as its fields.  type is    *)
(* the high byte, cc cx fc fx vc vx duration the seven bytes below it;     *)
(* address is the low part of a JUMP word.                                 *)

Code(type, cc, cx, fc, fx, vc, vx, duration, address) ==
  [type |-> type, cc |-> cc, cx |-> cx, fc |-> fc, fx |-> fx,
   vc |-> vc, vx |-> vx, duration |-> duration, address |-> address]

NOOP == 0
CHANGE == 1

CODE_WRITE_DELTA(cc, cx, fc, fx, vc, vx, duration) ==
  Code("WRITE_DELTA", cc, cx, fc, fx, vc, vx, duration, 0)
CODE_PAUSE(duration) == Code("PAUSE", 0, 0, 0, 0, 0, 0, duration, 0)
CODE_SUSTAIN(duration) == Code("SUSTAIN", 0, 0, 0, 0, 0, 0, duration, 0)
Nullary(type) == Code(type, 0, 0, 0, 0, 0, 0, 0, 0)
CODE_STOP == Nullary("STOP")
CODE_BRANCH_POINT == Nullary("BRANCH_POINT")
CODE_SKIP == Nullary("SKIP")
CODE_TAKE_DATA_JUMP == Nullary("TAKE_DATA_JUMP")
CODE_TAKE_TRACK_JUMP == Nullary("TAKE_TRACK_JUMP")
CODE_RETURN_LAST == Nullary("RETURN_LAST")
CODE_RETURN_FF == Nullary("RETURN_FF")
CODE_RETURN_NOOP == Nullary("RETURN_NOOP")

CODE_JUMP(address) == Code("JUMP", 0, 0, 0, 0, 0, 0, 0, address)

JumpAddressMask == 8192      \* c & 0x1fff
\* the low 16 bits of the word: the address of a JUMP, else vx and duration
LowBits(c) == IF c.type = "JUMP" THEN c.address ELSE 256 * c.vx + c.duration
GET_CODE_JUMP_ADDRESS(c) == LowBits(c) % JumpAddressMask
GET_CODE_TYPE(c) == c.type

-----------------------------------------------------------------------------
(* SuffixTree::find_prior: the longest prefix of seq[k..] that also begins *)
(* at some position j < k.                                                 *)

RECURSIVE MatchLen(_, _, _)
MatchLen(seq, j, k) ==
  IF k >= Size(seq) \/ At(seq, j) # At(seq, k) THEN 0
  ELSE 1 + MatchLen(seq, j + 1, k + 1)

PriorLength(seq, k) ==
  LET ls == {MatchLen(seq, j, k) : j \in 0..(k - 1)}
  IN IF ls = {} THEN 0 ELSE CHOOSE l \in ls : \A m \in ls : m <= l

\* the spans find_prior may return at position k
find_prior(seq, k) ==
  LET l == PriorLength(seq, k)
  IN IF l = 0 THEN {[start |-> 0, length |-> 0]}
     ELSE {[start |-> j, length |-> l] : j \in {j \in 0..(k - 1) : MatchLen(seq, j, k) = l}}

-----------------------------------------------------------------------------
(* compressCodeSequence: greedy parse *)

\* the copy loop over a prior span: for (j = start; j < nextSpanEnd; j++, i++)
RECURSIVE CopyLoop(_, _, _, _, _)
CopyLoop(cm, bfm, j, k, jEnd) ==
  IF j >= jEnd THEN [copyMap |-> cm, branchFrequencyMap |-> bfm, i |-> k]
  ELSE LET nextCodeAddr == At(cm, j)
           cm2 == Put(cm, k, nextCodeAddr)
           bfm2 == IF k > 0
                   THEN LET lastCodeAddr == At(cm2, k - 1)
                        IN Put(bfm, lastCodeAddr, MapInc(At(bfm, lastCodeAddr), nextCodeAddr))
                   ELSE bfm
       IN CopyLoop(cm2, bfm2, j + 1, k + 1, jEnd)

MinSpanLength == 3     \* if (nextSpan.length > 3)

UsePriorSpan(nextSpan) ==
  LET r == CopyLoop(copyMap, branchFrequencyMap, nextSpan.start,
                    i, nextSpan.start + nextSpan.length)
  IN /\ spans' = (IF currentSpan.length > 0 THEN Append(spans, currentSpan) ELSE spans)
                   \o <<nextSpan>>
     /\ copyMap' = r.copyMap
     /\ branchFrequencyMap' = r.branchFrequencyMap
     /\ i' = r.i
     /\ currentSpan' = [start |-> r.i, length |-> 0]

\* variant: the literal branch without copyMap[i] = i
ContinueCurrentSpanNoCopy ==
  /\ branchFrequencyMap' =
       IF i > 0
       THEN LET lastCodeAddr == At(copyMap, i - 1)
            IN Put(branchFrequencyMap, lastCodeAddr,
                   MapInc(At(branchFrequencyMap, lastCodeAddr), i))
       ELSE branchFrequencyMap
  /\ currentSpan' = [currentSpan EXCEPT !.length = @ + 1]
  /\ i' = i + 1
  /\ UNCHANGED <<spans, copyMap>>

\* else: the position joins the current literal span
ContinueCurrentSpan ==
  /\ branchFrequencyMap' =
       IF i > 0
       THEN LET lastCodeAddr == At(copyMap, i - 1)
            IN Put(branchFrequencyMap, lastCodeAddr,
                   MapInc(At(branchFrequencyMap, lastCodeAddr), i))
       ELSE branchFrequencyMap
  /\ copyMap' = Put(copyMap, i, i)
  /\ currentSpan' = [currentSpan EXCEPT !.length = @ + 1]
  /\ i' = i + 1
  /\ UNCHANGED spans

ParseStep ==
  /\ pc = "parse"
  /\ i < Size(codeSequence)
  /\ \E nextSpan \in find_prior(codeSequence, i) :
       IF nextSpan.length > MinSpanLength
       THEN UsePriorSpan(nextSpan)
       ELSE ContinueCurrentSpan
  /\ UNCHANGED <<emitVars, huffVars, bitVars, restVars, pc, codeSequence, skipMap, labels, end, spanIdx, repeatSpan,
                 compressedCodeSequence, spanSequence,
                 maxOffset, returnAddress, nextReadAddress, nextSpanAddress,
                 vNextReadAddress, it, compareAddress, vMaxOffset, vReturnAddress, emitted>>

ParseEnd ==
  /\ pc = "parse"
  /\ i >= Size(codeSequence)
  /\ spans' = IF currentSpan.length > 0 THEN Append(spans, currentSpan) ELSE spans
  /\ pc' = "skipmap"
  /\ UNCHANGED <<emitVars, huffVars, bitVars, restVars, codeSequence, i, copyMap, branchFrequencyMap, currentSpan,
                 skipMap, labels, end, spanIdx, repeatSpan,
                 compressedCodeSequence, spanSequence,
                 maxOffset, returnAddress, nextReadAddress, nextSpanAddress,
                 vNextReadAddress, it, compareAddress, vMaxOffset, vReturnAddress, emitted>>

-----------------------------------------------------------------------------
(* compressCodeSequence: skipMap *)

\* what copyMap[copyMap.size()] may hold: the read is one past the vector
PastTheEnd == {0, 1}

\* variant: the physical neighbour is not left out of the search
SkipIndexAny(branchFrequencies, nextIndex, default) ==
  LET cand == DOMAIN branchFrequencies
  IN IF cand = {} THEN default
     ELSE CHOOSE k \in cand :
            \A x \in cand : \/ branchFrequencies[x] < branchFrequencies[k]
                            \/ (branchFrequencies[x] = branchFrequencies[k] /\ k <= x)

\* for (auto &x: branchFrequencies) in key order, taking the first maximum
SkipIndex(branchFrequencies, nextIndex, default) ==
  LET cand == {k \in DOMAIN branchFrequencies : k # nextIndex}
  IN IF cand = {} THEN default
     ELSE CHOOSE k \in cand :
            \A x \in cand : \/ branchFrequencies[x] < branchFrequencies[k]
                            \/ (branchFrequencies[x] = branchFrequencies[k] /\ k <= x)

BuildSkipMap ==
  /\ pc = "skipmap"
  /\ \E g \in PastTheEnd :
       skipMap' = [k \in 1..Size(branchFrequencyMap) |->
                     LET src == k - 1
                         default == IF src + 1 < Size(copyMap) THEN At(copyMap, src + 1) ELSE g
                     IN SkipIndex(At(branchFrequencyMap, src), src + 1, default)]
  /\ pc' = "rewrite"
  /\ UNCHANGED <<emitVars, huffVars, bitVars, restVars, codeSequence, i, copyMap, branchFrequencyMap, spans, currentSpan,
                 labels, end, spanIdx, repeatSpan,
                 compressedCodeSequence, spanSequence,
                 maxOffset, returnAddress, nextReadAddress, nextSpanAddress,
                 vNextReadAddress, it, compareAddress, vMaxOffset, vReturnAddress, emitted>>

-----------------------------------------------------------------------------
(* compressCodeSequence: control-flow rewriter, for (auto &span: spans) *)

RewriteUnch == <<emitVars, huffVars, bitVars, restVars, codeSequence, copyMap, branchFrequencyMap, spans, currentSpan, skipMap,
                 maxOffset, returnAddress, nextReadAddress, nextSpanAddress,
                 vNextReadAddress, it, compareAddress, vMaxOffset, vReturnAddress, emitted>>

\* entering the body of the outer loop for the next span
BeginSpan ==
  /\ pc = "rewrite"
  /\ spanIdx < Size(spans)
  /\ LET span == At(spans, spanIdx)
     IN /\ repeatSpan' = (end > span.start)
        /\ i' = span.start
  /\ pc' = "traverse"
  /\ UNCHANGED <<labels, end, spanIdx, compressedCodeSequence, spanSequence>>
  /\ UNCHANGED RewriteUnch

\* variant: the data jump and the skip are exchanged
SpanDecisionSwapped(nextCodeAddress, skipCodeAddress, leftmostCodeAddr) ==
  IF nextCodeAddress = skipCodeAddress THEN <<CODE_SKIP>>
  ELSE IF nextCodeAddress = leftmostCodeAddr + 1 THEN <<CODE_TAKE_DATA_JUMP>>
  ELSE <<CODE_TAKE_TRACK_JUMP, CODE_JUMP(nextCodeAddress)>>

\* the decision pushed to the span stream at a position with several successors
SpanDecision(nextCodeAddress, skipCodeAddress, leftmostCodeAddr) ==
  IF nextCodeAddress = skipCodeAddress THEN <<CODE_TAKE_DATA_JUMP>>
  ELSE IF nextCodeAddress = leftmostCodeAddr + 1 THEN <<CODE_SKIP>>
  ELSE <<CODE_TAKE_TRACK_JUMP, CODE_JUMP(nextCodeAddress)>>

\* variant: the code is written again when a span is repeated
WriteRegularAlways(repeat, stream, c) == Append(stream, c)

\* if (!repeatSpan) compressedCodeSequence.emplace_back(c)
WriteRegular(repeat, stream, c) == IF repeat THEN stream ELSE Append(stream, c)

\* variant: the data stream gets a BRANCH_POINT whatever the size of the table
WriteBranchPoint(repeat, stream, tableSize, skipCodeAddress) ==
  IF repeat THEN stream
  ELSE stream \o <<CODE_BRANCH_POINT, CODE_JUMP(skipCodeAddress)>>

\* if (!repeatSpan) the branch code and its JUMP go to the data stream
WriteBranch(repeat, stream, tableSize, skipCodeAddress) ==
  IF repeat THEN stream
  ELSE stream \o <<IF tableSize < 2 THEN CODE_TAKE_DATA_JUMP ELSE CODE_BRANCH_POINT,
                   CODE_JUMP(skipCodeAddress)>>

\* one iteration of the inner loop: for (i = span.start; i < spanEnd; i++)
TraverseSpan ==
  /\ pc = "traverse"
  /\ LET span == At(spans, spanIdx)
         spanEnd == span.start + span.length
         leftmostCodeAddr == At(copyMap, end)
         c == At(codeSequence, i)
         written == WriteRegular(repeatSpan, compressedCodeSequence, c)
         labelled == IF repeatSpan THEN labels
                     ELSE Put(labels, i, Size(compressedCodeSequence))
     IN IF i >= spanEnd
        THEN /\ spanIdx' = spanIdx + 1
             /\ pc' = "rewrite"
             /\ UNCHANGED <<i, labels, end, repeatSpan, compressedCodeSequence, spanSequence>>
        ELSE IF ~repeatSpan /\ c = CODE_STOP
        THEN \* write stop, break
             /\ labels' = labelled
             /\ compressedCodeSequence' = Append(compressedCodeSequence, CODE_BRANCH_POINT)
             /\ spanSequence' = Append(spanSequence, CODE_STOP)
             /\ spanIdx' = spanIdx + 1
             /\ pc' = "rewrite"
             /\ UNCHANGED <<i, end, repeatSpan>>
        ELSE IF ~(end + 1 < Size(copyMap))
        THEN \* assert (end < copyMap.size())
             /\ labels' = labelled
             /\ compressedCodeSequence' = written
             /\ end' = end + 1
             /\ pc' = "assert"
             /\ UNCHANGED <<i, spanIdx, repeatSpan, spanSequence>>
        ELSE LET nextCodeAddress == At(copyMap, end + 1)
                 branchTable == At(branchFrequencyMap, leftmostCodeAddr)
                 tableSize == Cardinality(DOMAIN branchTable)
                 skipCodeAddress == At(skipMap, leftmostCodeAddr)
             IN /\ labels' = labelled
                /\ end' = end + 1
                /\ i' = i + 1
                /\ IF nextCodeAddress = leftmostCodeAddr + 1 /\ tableSize < 2
                   THEN /\ compressedCodeSequence' = written
                        /\ UNCHANGED spanSequence
                   ELSE /\ compressedCodeSequence' =
                             WriteBranch(repeatSpan, written, tableSize, skipCodeAddress)
                        /\ spanSequence' =
                             IF tableSize > 1
                             THEN spanSequence \o
                                  SpanDecision(nextCodeAddress, skipCodeAddress, leftmostCodeAddr)
                             ELSE spanSequence
                /\ UNCHANGED <<pc, spanIdx, repeatSpan>>
  /\ UNCHANGED RewriteUnch

\* variant: the jumps keep the positions of the uncompressed sequence
RewriteJumpAddressesNone(stream, lbl) == stream

\* labels[GET_CODE_JUMP_ADDRESS(c)] for every JUMP of a stream
RewriteJumpAddresses(stream, lbl) ==
  [k \in 1..Len(stream) |->
     IF GET_CODE_TYPE(stream[k]) = "JUMP"
     THEN CODE_JUMP(At(lbl, GET_CODE_JUMP_ADDRESS(stream[k])))
     ELSE stream[k]]

\* the outer loop is over; rewrite jump addresses in both streams
EndSpans ==
  /\ pc = "rewrite"
  /\ spanIdx >= Size(spans)
  /\ compressedCodeSequence' = RewriteJumpAddresses(compressedCodeSequence, labels)
  /\ spanSequence' = RewriteJumpAddresses(spanSequence, labels)
  /\ pc' = IF \E k \in 1..Len(spanSequence) : GET_CODE_TYPE(spanSequence[k]) = "WRITE_DELTA"
           THEN "assert" ELSE "fixup"
  /\ UNCHANGED <<i, labels, end, spanIdx, repeatSpan>>
  /\ UNCHANGED RewriteUnch

-----------------------------------------------------------------------------
(* compressCodeSequence: rewrite jumps as returns where possible.          *)
(* One action is one iteration of the while (true) loop.  pc "assert" is   *)
(* a failed assert, pc "oob" a read outside a vector.                      *)

\* variant: the comparison with the old mark is lost
HighWaterLast(ret, maxOff) == ret

\* if (returnAddress >= maxOffset) maxOffset = returnAddress
HighWater(ret, maxOff) == IF ret >= maxOff THEN ret ELSE maxOff

InRange(v, k) == 0 <= k /\ k < Size(v)

FixupUnch == <<emitVars, huffVars, bitVars, restVars, codeSequence, i, copyMap, branchFrequencyMap, spans, currentSpan, skipMap,
               labels, end, spanIdx, repeatSpan,
               vNextReadAddress, it, compareAddress, vMaxOffset, vReturnAddress, emitted>>

\* c == CODE_TAKE_DATA_JUMP in the data stream, or the TAKE_DATA_JUMP decision:
\* follow the JUMP at jumpAt
FixupTakeDataJump(jumpAt) ==
  IF ~InRange(compressedCodeSequence, jumpAt)
  THEN /\ pc' = "oob"
       /\ UNCHANGED <<maxOffset, returnAddress, nextReadAddress>>
  ELSE /\ returnAddress' = jumpAt + 1
       /\ maxOffset' = HighWater(jumpAt + 1, maxOffset)
       /\ nextReadAddress' = GET_CODE_JUMP_ADDRESS(At(compressedCodeSequence, jumpAt))
       /\ UNCHANGED pc

\* variant: the high-water mark is compared first
ReturnCodeFrontFirst(jumpAddress, ret, maxOff) ==
  IF jumpAddress = maxOff THEN CODE_RETURN_FF
  ELSE IF jumpAddress = ret THEN CODE_RETURN_LAST
  ELSE CODE_TAKE_TRACK_JUMP

\* what a TAKE_TRACK_JUMP decision becomes: if (jumpAddress == returnAddress),
\* else if (jumpAddress == maxOffset), else it stays
ReturnCode(jumpAddress, ret, maxOff) ==
  IF jumpAddress = ret THEN CODE_RETURN_LAST
  ELSE IF jumpAddress = maxOff THEN CODE_RETURN_FF
  ELSE CODE_TAKE_TRACK_JUMP

FixupTakeTrackJump ==
  IF ~InRange(spanSequence, nextSpanAddress + 1)
  THEN /\ pc' = "oob"
       /\ UNCHANGED <<maxOffset, returnAddress, nextReadAddress, nextSpanAddress, spanSequence>>
  ELSE LET s == At(spanSequence, nextSpanAddress + 1)
           jumpAddress == GET_CODE_JUMP_ADDRESS(s)
       IN IF GET_CODE_TYPE(s) # "JUMP"
          THEN /\ pc' = "assert"
               /\ UNCHANGED <<maxOffset, returnAddress, nextReadAddress, nextSpanAddress,
                              spanSequence>>
          ELSE /\ IF ReturnCode(jumpAddress, returnAddress, maxOffset) # CODE_TAKE_TRACK_JUMP
                  THEN /\ spanSequence' =
                            Put(Put(spanSequence, nextSpanAddress,
                                    ReturnCode(jumpAddress, returnAddress, maxOffset)),
                                nextSpanAddress + 1, CODE_RETURN_NOOP)
                       /\ UNCHANGED <<returnAddress, maxOffset>>
                  ELSE /\ returnAddress' = nextReadAddress + 2
                       /\ maxOffset' = HighWater(nextReadAddress + 2, maxOffset)
                       /\ UNCHANGED spanSequence
               /\ nextReadAddress' = jumpAddress
               /\ nextSpanAddress' = nextSpanAddress + 2
               /\ UNCHANGED pc

FixupStep ==
  /\ pc = "fixup"
  /\ IF ~InRange(compressedCodeSequence, nextReadAddress)
     THEN /\ pc' = "assert"
          /\ UNCHANGED <<maxOffset, returnAddress, nextReadAddress, nextSpanAddress, spanSequence>>
     ELSE LET c == At(compressedCodeSequence, nextReadAddress)
          IN IF c = CODE_TAKE_DATA_JUMP
             THEN /\ FixupTakeDataJump(nextReadAddress + 1)
                  /\ UNCHANGED <<nextSpanAddress, spanSequence>>
             ELSE IF c # CODE_BRANCH_POINT
             THEN /\ nextReadAddress' = nextReadAddress + 1
                  /\ UNCHANGED <<pc, maxOffset, returnAddress, nextSpanAddress, spanSequence>>
             ELSE IF ~InRange(spanSequence, nextSpanAddress)
             THEN /\ pc' = "assert"
                  /\ UNCHANGED <<maxOffset, returnAddress, nextReadAddress, nextSpanAddress,
                                 spanSequence>>
             ELSE LET s == At(spanSequence, nextSpanAddress)
                  IN IF s = CODE_STOP
                     THEN /\ pc' = "validate"
                          /\ nextReadAddress' = nextReadAddress + 1
                          /\ nextSpanAddress' = nextSpanAddress + 1
                          /\ UNCHANGED <<maxOffset, returnAddress, spanSequence>>
                     ELSE IF s = CODE_SKIP
                     THEN /\ nextReadAddress' = nextReadAddress + 2
                          /\ nextSpanAddress' = nextSpanAddress + 1
                          /\ UNCHANGED <<pc, maxOffset, returnAddress, spanSequence>>
                     ELSE IF s = CODE_TAKE_DATA_JUMP
                     THEN /\ FixupTakeDataJump(nextReadAddress + 1)
                          /\ nextSpanAddress' = nextSpanAddress + 1
                          /\ UNCHANGED spanSequence
                     ELSE IF s = CODE_RETURN_FF
                     THEN /\ nextReadAddress' = maxOffset
                          /\ nextSpanAddress' = nextSpanAddress + 2
                          /\ UNCHANGED <<pc, maxOffset, returnAddress, spanSequence>>
                     ELSE IF s = CODE_RETURN_LAST
                     THEN /\ nextReadAddress' = returnAddress
                          /\ nextSpanAddress' = nextSpanAddress + 2
                          /\ UNCHANGED <<pc, maxOffset, returnAddress, spanSequence>>
                     ELSE IF s = CODE_TAKE_TRACK_JUMP
                     THEN FixupTakeTrackJump
                     ELSE /\ pc' = "assert"
                          /\ UNCHANGED <<maxOffset, returnAddress, nextReadAddress,
                                         nextSpanAddress, spanSequence>>
  /\ UNCHANGED compressedCodeSequence
  /\ UNCHANGED FixupUnch

-----------------------------------------------------------------------------
(* validateCodeSequence.  One action is one iteration of while (true).     *)
(* No read of the three vectors is bounds-checked: a read outside a vector *)
(* yields some word (Garbage) or stops the program (Crash); it stops the   *)
(* program once it is PastEndSlack or more elements past the end.          *)

Crash == Nullary("CRASH")
Garbage == {CODE_STOP, CODE_PAUSE(1), CODE_BRANCH_POINT, CODE_JUMP(0)}

Reads(v, k) ==
  IF InRange(v, k) THEN {At(v, k)}
  ELSE IF Size(v) <= k /\ k < Size(v) + PastEndSlack THEN Garbage \cup {Crash}
  ELSE {Crash}

ValidateUnch == <<emitVars, huffVars, bitVars, restVars, codeSequence, i, copyMap, branchFrequencyMap, spans, currentSpan, skipMap,
                  labels, end, spanIdx, repeatSpan, compressedCodeSequence, spanSequence,
                  maxOffset, returnAddress, nextReadAddress, nextSpanAddress>>

ValidateFail(how) ==
  /\ pc' = how
  /\ UNCHANGED <<vNextReadAddress, it, compareAddress, vMaxOffset, vReturnAddress, emitted>>

\* follow the JUMP stored at jumpAt of the data stream
ValidateTakeDataJump(jumpAt) ==
  \E c \in Reads(compressedCodeSequence, jumpAt) :
    IF c = Crash THEN ValidateFail("oob")
    ELSE IF GET_CODE_TYPE(c) # "JUMP" THEN ValidateFail("assert")
    ELSE /\ vReturnAddress' = jumpAt + 1
         /\ vMaxOffset' = HighWater(jumpAt + 1, vMaxOffset)
         /\ vNextReadAddress' = GET_CODE_JUMP_ADDRESS(c)
         /\ UNCHANGED <<pc, compareAddress, emitted>>

\* s == CODE_STOP: compare with the original, then leave the loop
ValidateStop ==
  \E x \in Reads(codeSequence, compareAddress) :
    IF x = Crash THEN ValidateFail("oob")
    ELSE IF x # CODE_STOP THEN ValidateFail("assert")
    ELSE IF it + 1 # Size(spanSequence) THEN ValidateFail("assert")
    ELSE /\ vNextReadAddress' = vNextReadAddress + 1
         /\ it' = it + 1
         /\ compareAddress' = compareAddress + 1
         /\ pc' = IF compareAddress + 1 = Size(codeSequence) THEN "done" ELSE "assert"
         /\ UNCHANGED <<vMaxOffset, vReturnAddress, emitted>>

ValidateTakeTrackJump ==
  \E s \in Reads(spanSequence, it + 1) :
    IF s = Crash THEN ValidateFail("oob")
    ELSE /\ it' = it + 2
         /\ vReturnAddress' = vNextReadAddress + 2
         /\ vMaxOffset' = HighWater(vNextReadAddress + 2, vMaxOffset)
         /\ vNextReadAddress' = GET_CODE_JUMP_ADDRESS(s)
         /\ UNCHANGED <<pc, compareAddress, emitted>>

ValidateBranchPoint ==
  IF it = Size(spanSequence) THEN ValidateFail("assert")
  ELSE \E s \in Reads(spanSequence, it) :
         IF s = Crash THEN ValidateFail("oob")
         ELSE IF s = CODE_STOP THEN ValidateStop
         ELSE IF s = CODE_SKIP
         THEN /\ vNextReadAddress' = vNextReadAddress + 2
              /\ it' = it + 1
              /\ UNCHANGED <<pc, compareAddress, vMaxOffset, vReturnAddress, emitted>>
         ELSE IF s = CODE_TAKE_DATA_JUMP
         THEN /\ ValidateTakeDataJump(vNextReadAddress + 1)
              /\ it' = it + 1
         ELSE IF s = CODE_RETURN_FF
         THEN /\ vNextReadAddress' = vMaxOffset
              /\ it' = it + 2
              /\ UNCHANGED <<pc, compareAddress, vMaxOffset, vReturnAddress, emitted>>
         ELSE IF s = CODE_RETURN_LAST
         THEN /\ vNextReadAddress' = vReturnAddress
              /\ it' = it + 2
              /\ UNCHANGED <<pc, compareAddress, vMaxOffset, vReturnAddress, emitted>>
         ELSE IF s = CODE_TAKE_TRACK_JUMP THEN ValidateTakeTrackJump
         ELSE ValidateFail("assert")

\* variant: the comparison with the original is lost
ValidateCompareNone(c) ==
  /\ vNextReadAddress' = vNextReadAddress + 1
  /\ compareAddress' = compareAddress + 1
  /\ emitted' = Append(emitted, c)
  /\ UNCHANGED <<pc, it, vMaxOffset, vReturnAddress>>

\* a code that is neither TAKE_DATA_JUMP nor a BRANCH_POINT is compared
ValidateCompare(c) ==
  \E x \in Reads(codeSequence, compareAddress) :
    IF x = Crash THEN ValidateFail("oob")
    ELSE IF c # x
    THEN /\ pc' = "assert"
         /\ emitted' = Append(emitted, c)
         /\ UNCHANGED <<vNextReadAddress, it, compareAddress, vMaxOffset, vReturnAddress>>
    ELSE /\ vNextReadAddress' = vNextReadAddress + 1
         /\ compareAddress' = compareAddress + 1
         /\ emitted' = Append(emitted, c)
         /\ UNCHANGED <<pc, it, vMaxOffset, vReturnAddress>>

ValidateStep ==
  /\ pc = "validate"
  /\ \E c \in Reads(compressedCodeSequence, vNextReadAddress) :
       IF c = Crash THEN ValidateFail("oob")
       ELSE IF c = CODE_TAKE_DATA_JUMP
       THEN /\ ValidateTakeDataJump(vNextReadAddress + 1)
            /\ UNCHANGED it
       ELSE IF GET_CODE_TYPE(c) = "BRANCH_POINT" THEN ValidateBranchPoint
       ELSE ValidateCompare(c)
  /\ UNCHANGED ValidateUnch

-----------------------------------------------------------------------------
(* The pipeline of writeTrackDataTIAZip for one (subsong, channel):        *)
(* compressCodeSequence, then validateCodeSequence.                        *)

\* the codes encodeChannelStateCodes can put into a sequence, as used here
InputCodes == {CODE_PAUSE(1), CODE_SUSTAIN(1)}

RECURSIVE SeqsOf(_, _)
SeqsOf(S, n) ==
  IF n = 0 THEN {<<>>}
  ELSE LET shorter == SeqsOf(S, n - 1)
       IN shorter \cup {Append(q, x) : q \in {q \in shorter : Len(q) = n - 1}, x \in S}

\* every sequence of input codes followed by exactly one final STOP
CodeSequences(maxLen) == {Append(q, CODE_STOP) : q \in SeqsOf(InputCodes, maxLen - 1)}

InitCompress(cs) ==
  /\ codeSequence = cs
  /\ pc = "parse"
  /\ i = 0
  /\ copyMap = Zeros(Size(cs))
  /\ branchFrequencyMap = [k \in 1..Size(cs) |-> EmptyMap]
  /\ spans = <<>>
  /\ currentSpan = [start |-> 0, length |-> 0]
  /\ skipMap = <<>>
  /\ labels = Zeros(Size(cs))
  /\ end = 0
  /\ spanIdx = 0
  /\ repeatSpan = FALSE
  /\ compressedCodeSequence = <<>>
  /\ spanSequence = <<>>
  /\ maxOffset = 0
  /\ returnAddress = 0
  /\ nextReadAddress = 0
  /\ nextSpanAddress = 0

ZeroState == [c |-> 0, f |-> 0, v |-> 0]      \* ChannelState(0)
NoCall == [n |-> 0, next |-> ZeroState, duration |-> 0, last |-> ZeroState, out |-> <<>>]

NULL == 0                  \* the null pointer
Runs == {1, 2}

CaptureIdle == intervals = <<>>

DriverIdle ==
  /\ numSongs = 0
  /\ subsong = 0
  /\ channel = 0
  /\ abortRequested = FALSE
  /\ diverged = FALSE
  /\ goResult = FALSE

JumpIdle ==
  /\ jumpFrequencyMap = EmptyMap
  /\ jumpHeap = {}
  /\ jumpMap = EmptyMap
  /\ jumpAddresses = <<>>

EchoIdle == bitsWritten = <<>> /\ bitsRead = <<>>

NoPatch == [address |-> 0, operand |-> 0]

EncodeIdle ==
  /\ streamDataOffset = 0
  /\ positionMap = <<>>
  /\ patched = NoPatch

RestIdle == CaptureIdle /\ DriverIdle /\ JumpIdle /\ EchoIdle /\ EncodeIdle

HuffmanIdle ==
  /\ frequencyMap = <<>>
  /\ limit = 0
  /\ literal = 0
  /\ nodes = <<>>
  /\ heap = {}
  /\ literal_weight = 0
  /\ root = NULL
  /\ stack = <<>>
  /\ index = <<>>

BitstreamIdle ==
  /\ buffer = [r \in Runs |-> <<>>]
  /\ capacity = 0
  /\ pos = 0
  /\ endPos = 0
  /\ bytes = [r \in Runs |-> <<>>]

InitValidate ==
  /\ last = ZeroState
  /\ call = NoCall
  /\ RestIdle
  /\ HuffmanIdle
  /\ BitstreamIdle
  /\ vNextReadAddress = 0
  /\ it = 0
  /\ compareAddress = 0
  /\ vMaxOffset = 0
  /\ vReturnAddress = 0
  /\ emitted = <<>>

Init == \E cs \in CodeSequences(MaxLen) : InitCompress(cs) /\ InitValidate

Next ==
  \/ ParseStep
  \/ ParseEnd
  \/ BuildSkipMap
  \/ BeginSpan
  \/ TraverseSpan
  \/ EndSpans
  \/ FixupStep
  \/ ValidateStep

Spec == Init /\ [][Next]_vars

\* the loops of the pipeline are always scheduled: nothing else runs
FairInit == \E cs \in CodeSequences(MaxFairLen) : InitCompress(cs) /\ InitValidate

FairSpec == FairInit /\ [][Next]_vars /\ WF_vars(Next)

-----------------------------------------------------------------------------
(* validateCodeSequence alone, called with any three vectors *)

ValidatorCodes == {CODE_SUSTAIN(1), CODE_STOP}
ValidatorData == {CODE_SUSTAIN(1), CODE_BRANCH_POINT, CODE_TAKE_DATA_JUMP, CODE_JUMP(0)}
ValidatorSpan == {CODE_STOP, CODE_SKIP, CODE_TAKE_DATA_JUMP, CODE_TAKE_TRACK_JUMP,
                  CODE_RETURN_LAST, CODE_RETURN_FF, CODE_JUMP(1)}

ValidatorInit ==
  /\ codeSequence \in SeqsOf(ValidatorCodes, MaxVCode)
  /\ compressedCodeSequence \in SeqsOf(ValidatorData, MaxVData)
  /\ spanSequence \in SeqsOf(ValidatorSpan, MaxVSpan)
  /\ pc = "validate"
  /\ i = 0
  /\ copyMap = <<>>
  /\ branchFrequencyMap = <<>>
  /\ spans = <<>>
  /\ currentSpan = [start |-> 0, length |-> 0]
  /\ skipMap = <<>>
  /\ labels = <<>>
  /\ end = 0
  /\ spanIdx = 0
  /\ repeatSpan = FALSE
  /\ maxOffset = 0
  /\ returnAddress = 0
  /\ nextReadAddress = 0
  /\ nextSpanAddress = 0
  /\ InitValidate

ValidatorNext == ValidateStep

ValidatorSpec == ValidatorInit /\ [][ValidatorNext]_vars

-----------------------------------------------------------------------------
(* Properties of the compressor and of the replay of its output *)

HasCode(seq, c) == \E k \in 1..Len(seq) : seq[k] = c
Count(seq, c) == Cardinality({k \in 1..Len(seq) : seq[k] = c})

\* C1: replaying the two streams produced by compressCodeSequence with the
\* decoder of validateCodeSequence yields the codes of the original sequence
\* in order: the k-th non-control code read equals codeSequence[k], the replay
\* never diverges, and it ends having produced every code before the STOP.
RoundTrip ==
  /\ \A k \in 1..Len(emitted) : k <= Len(codeSequence) /\ emitted[k] = codeSequence[k]
  /\ pc \notin {"assert", "oob"}
  /\ pc = "done" => Append(emitted, CODE_STOP) = codeSequence

\* a replay that ended, over streams with a back-reference and a return
RoundTripWitness ==
  /\ pc = "done"
  /\ Len(spans) > 1
  /\ HasCode(spanSequence, CODE_RETURN_LAST) \/ HasCode(spanSequence, CODE_RETURN_FF)

\* C2: both replay loops halt at the STOP decision: the pipeline reaches the
\* end of validateCodeSequence, no loop fails an assert or reads outside a
\* vector, the fix-up loop leaves with the span stream consumed, and the
\* validator ends with the span stream consumed and the compare cursor at
\* codeSequence.size().
TerminatesOnStop ==
  /\ <>(pc = "done")
  /\ [](pc \notin {"assert", "oob"})
  /\ [](pc = "validate" => nextSpanAddress = Size(spanSequence))
  /\ [](pc = "done" => it = Size(spanSequence) /\ compareAddress = Size(codeSequence))

\* both loops have halted after taking several decisions
TerminatesOnStopWitness ==
  /\ pc = "done"
  /\ nextSpanAddress > 3
  /\ it = nextSpanAddress

\* C7: compressedCodeSequence.size() <= codeSequence.size() + 2*B, B the
\* number of BRANCH_POINT codes in the data stream.
NumBranchPoints == Count(compressedCodeSequence, CODE_BRANCH_POINT)

LengthBound ==
  pc \in {"fixup", "validate", "done"} =>
    Size(compressedCodeSequence) <= Size(codeSequence) + 2 * NumBranchPoints

\* a finished data stream with branch points and an inline jump
LengthBoundWitness ==
  /\ pc = "fixup"
  /\ NumBranchPoints >= 2
  /\ HasCode(compressedCodeSequence, CODE_TAKE_DATA_JUMP)
  /\ Len(spans) > 1

\* C8: the high-water mark of a decode never decreases, in the fix-up replay
\* (maxOffset) and in validateCodeSequence (vMaxOffset).
MonotoneHighWater == [][maxOffset' >= maxOffset /\ vMaxOffset' >= vMaxOffset]_vars

\* a jump was taken from below the high-water mark, in both replays
MonotoneHighWaterWitness ==
  /\ pc = "validate"
  /\ returnAddress < maxOffset
  /\ 0 < vReturnAddress /\ vReturnAddress < vMaxOffset

-----------------------------------------------------------------------------
(* encodeChannelStateCodes and the loop of writeTrackDataTIAZip calling it *)

\* variant: the volume field is the target volume, with no INC/DEC substitution
VolumeFieldAbsolute(nextV, lastV) == nextV

\* variant: the volume field holds the difference to the last volume
VolumeFieldDelta(nextV, lastV) ==
  IF nextV = lastV + 1 THEN 16
  ELSE IF lastV = nextV + 1 THEN 240
  ELSE (nextV + 256 - lastV) % 256

\* audvx after the INC/DEC substitution: 0x10 one up, 0xf0 one down
VolumeField(nextV, lastV) ==
  IF nextV = lastV + 1 THEN 16
  ELSE IF lastV = nextV + 1 THEN 240
  ELSE nextV

\* variant: a control change leaves the other two flags as they are
ForcedFlagNever(cc, flag) == flag

\* if (cc > 0) fc = vc = CHANGE
ForcedFlag(cc, flag) == IF cc > 0 THEN CHANGE ELSE flag

\* variant: a WRITE_DELTA is written whatever the change flags are
WritesDeltaAlways(cc, fc, vc) == TRUE

\* else if (cc + fc + vc > 0)
WritesDelta(cc, fc, vc) == cc + fc + vc > 0

SustainChunk == 16     \* framecount > 16 ? 16 : framecount

\* while (framecount > 0): one SUSTAIN per chunk of the residual
RECURSIVE Sustains(_)
Sustains(framecount) ==
  IF framecount <= 0 THEN <<>>
  ELSE LET dx == IF framecount > SustainChunk THEN SustainChunk ELSE framecount
       IN <<CODE_SUSTAIN(dx)>> \o Sustains(framecount - dx)

\* the codes one call appends to out
encodeChannelStateCodes(next, duration, lastState) ==
  LET framecount == IF duration > 0 THEN duration ELSE 1
      audcx == next.c
      cc == IF audcx # lastState.c THEN CHANGE ELSE NOOP
      audfx == next.f
      fc0 == IF audfx # lastState.f THEN CHANGE ELSE NOOP
      vc0 == IF next.v # lastState.v THEN CHANGE ELSE NOOP
      audvx == VolumeField(next.v, lastState.v)
      dx == 1
      fc == ForcedFlag(cc, fc0)
      vc == ForcedFlag(cc, vc0)
      first == IF audvx = 0 THEN <<CODE_PAUSE(dx)>>
               ELSE IF WritesDelta(cc, fc, vc)
               THEN <<CODE_WRITE_DELTA(cc, IF cc = NOOP THEN 0 ELSE audcx,
                                       fc, IF fc = NOOP THEN 0 ELSE audfx,
                                       vc, IF vc = NOOP THEN 0 ELSE audvx,
                                       dx)>>
               ELSE <<>>
  IN first \o Sustains(framecount - dx)

\* register values of the intervals given to the emitter
Controls == {0, 4}
Frequencies == {0, 10}
Volumes == {0, 1, 3}
Durations == {0, 1, 2, MaxDuration, 2 * MaxDuration}
ChannelStates == [c : Controls, f : Frequencies, v : Volumes]

\* compressCodeSequence and validateCodeSequence have not run
CompressIdle ==
  /\ compressedCodeSequence = <<>>
  /\ spanSequence = <<>>
  /\ i = 0
  /\ copyMap = <<>>
  /\ branchFrequencyMap = <<>>
  /\ spans = <<>>
  /\ currentSpan = [start |-> 0, length |-> 0]
  /\ skipMap = <<>>
  /\ labels = <<>>
  /\ end = 0
  /\ spanIdx = 0
  /\ repeatSpan = FALSE
  /\ maxOffset = 0
  /\ returnAddress = 0
  /\ nextReadAddress = 0
  /\ nextSpanAddress = 0
  /\ vNextReadAddress = 0
  /\ it = 0
  /\ compareAddress = 0
  /\ vMaxOffset = 0
  /\ vReturnAddress = 0
  /\ emitted = <<>>

compressVars == <<codeSequence, compressedCodeSequence, spanSequence, i, copyMap,
                  branchFrequencyMap, spans, currentSpan, skipMap, labels, end, spanIdx,
                  repeatSpan, maxOffset, returnAddress, nextReadAddress, nextSpanAddress,
                  vNextReadAddress, it, compareAddress, vMaxOffset, vReturnAddress, emitted>>

EmitterInit ==
  /\ pc = "encode"
  /\ codeSequence = <<>>
  /\ last = ZeroState
  /\ call = NoCall
  /\ RestIdle
  /\ HuffmanIdle
  /\ BitstreamIdle
  /\ CompressIdle

EmitterUnch == <<huffVars, bitVars, restVars, compressedCodeSequence, spanSequence, i, copyMap, branchFrequencyMap, spans,
                 currentSpan, skipMap, labels, end, spanIdx, repeatSpan,
                 maxOffset, returnAddress, nextReadAddress, nextSpanAddress,
                 vNextReadAddress, it, compareAddress, vMaxOffset, vReturnAddress, emitted>>

\* for (auto& n: dumpSequence.intervals): encode, then last = n.state
EncodeInterval ==
  /\ pc = "encode"
  /\ call.n < MaxIntervals
  /\ \E next \in ChannelStates, duration \in Durations :
       LET out == encodeChannelStateCodes(next, duration, last)
       IN /\ codeSequence' = codeSequence \o out
          /\ call' = [n |-> call.n + 1, next |-> next, duration |-> duration,
                      last |-> last, out |-> out]
          /\ last' = next
  /\ UNCHANGED pc
  /\ UNCHANGED EmitterUnch

\* codeSequence.emplace_back(CODE_STOP)
EncodeStop ==
  /\ pc = "encode"
  /\ codeSequence' = Append(codeSequence, CODE_STOP)
  /\ pc' = "encoded"
  /\ UNCHANGED <<last, call>>
  /\ UNCHANGED EmitterUnch

EmitterNext == EncodeInterval \/ EncodeStop

EmitterSpec == EmitterInit /\ [][EmitterNext]_vars

HasType(seq, type) == \E k \in 1..Len(seq) : seq[k].type = type

\* C4: no WRITE_DELTA of the code sequence has all three change flags clear.
NoForbiddenCodes ==
  \A k \in 1..Len(codeSequence) :
    codeSequence[k].type = "WRITE_DELTA" =>
      codeSequence[k].cc + codeSequence[k].fc + codeSequence[k].vc > 0

\* an interval that changes nothing at a non-zero volume was converted
NoForbiddenCodesWitness ==
  /\ call.n > 0
  /\ call.next = call.last
  /\ call.next.v # 0
  /\ call.duration > 1

\* C5: a PAUSE is written only for an interval whose target volume is zero.
PauseImpliesZero == (call.n > 0 /\ HasType(call.out, "PAUSE")) => call.next.v = 0

\* a PAUSE was written after a volume that was not zero
PauseImpliesZeroWitness ==
  /\ call.n > 0
  /\ HasType(call.out, "PAUSE")
  /\ call.last.v > 1

\* C6: for a target volume of zero, whatever the last state, the codes written
\* are PAUSE(1) first, then only SUSTAINs, and no WRITE_DELTA.
ZeroVolumeIsPause ==
  (call.n > 0 /\ call.next.v = 0) =>
    /\ Len(call.out) >= 1
    /\ call.out[1] = CODE_PAUSE(1)
    /\ \A k \in 2..Len(call.out) : call.out[k].type = "SUSTAIN"

-----------------------------------------------------------------------------
(* One (subsong, channel) pair of writeTrackDataTIAZip: the intervals are   *)
(* captured from a track, a list of runs of frames with one register state *)
(* each, and then converted one by one.                                    *)

MaxFrames == 128       \* longest run of a track with a single run, in frames
MaxRamp == 8           \* most steps of a volume ramp
MaxPairFrames == 2     \* longest run of a track with two runs, less the interval cap

maxIntervalDuration == 16      \* ChannelStateSequence dumpSequence(ChannelState(0), 16)

\* a run longer than maxIntervalDuration becomes adjacent intervals of the same state
RECURSIVE SplitRun(_, _)
SplitRun(state, frames) ==
  IF frames <= 0 THEN <<>>
  ELSE IF frames > maxIntervalDuration
  THEN <<[state |-> state, duration |-> maxIntervalDuration]>>
         \o SplitRun(state, frames - maxIntervalDuration)
  ELSE <<[state |-> state, duration |-> frames]>>

\* writeChannelStateSequence: the intervals of a track
RECURSIVE writeChannelStateSequence(_)
writeChannelStateSequence(track) ==
  IF track = <<>> THEN <<>>
  ELSE SplitRun(track[1].state, track[1].frames) \o writeChannelStateSequence(Tail(track))

ToneStates == {[c |-> 4, f |-> 10, v |-> 8], ZeroState}

\* one state held
ToneTracks == {<<[state |-> st, frames |-> n]>> : st \in ToneStates, n \in 1..MaxFrames}

\* the volume going up or down by one each frame from v0, control and frequency held
RampTracks ==
  {[k \in 1..n |-> [state |-> [c |-> c, f |-> f, v |-> k - 1], frames |-> 1]] :
     c \in Controls, f \in Frequencies, n \in 2..MaxRamp}
  \cup
  {[k \in 1..n |-> [state |-> [c |-> c, f |-> f, v |-> v0 - (k - 1)], frames |-> 1]] :
     c \in Controls, f \in Frequencies, n \in 2..MaxRamp, v0 \in {MaxRamp - 1, MaxRamp}}

\* two runs of different states
PairTracks ==
  {<<[state |-> s[1], frames |-> n1], [state |-> s[2], frames |-> n2]>> :
     s \in {t \in ChannelStates \X ChannelStates : t[1] # t[2]},
     n1 \in {1, maxIntervalDuration + MaxPairFrames}, n2 \in 1..MaxPairFrames}

Tracks == ToneTracks \cup RampTracks \cup PairTracks

TrackUnch == <<huffVars, bitVars, driverVars, jumpVars, echoVars, encodeVars,
               compressedCodeSequence, spanSequence,
               copyMap, branchFrequencyMap, spans, currentSpan, skipMap, labels, end, spanIdx,
               repeatSpan, maxOffset, returnAddress, nextReadAddress, nextSpanAddress,
               vNextReadAddress, it, compareAddress, vMaxOffset, vReturnAddress, emitted>>

\* ChannelStateSequence dumpSequence(ChannelState(0), 16)
TrackInit ==
  /\ pc = "capture"
  /\ codeSequence = <<>>
  /\ last = ZeroState
  /\ call = NoCall
  /\ RestIdle
  /\ HuffmanIdle
  /\ BitstreamIdle
  /\ CompressIdle

\* writeChannelStateSequence(..., dumpSequence), then ChannelState last(dumpSequence.initialState)
CaptureTrack ==
  /\ pc = "capture"
  /\ \E track \in Tracks : intervals' = writeChannelStateSequence(track)
  /\ pc' = "convert"
  /\ UNCHANGED <<codeSequence, i, last, call>>
  /\ UNCHANGED TrackUnch

\* for (auto& n: dumpSequence.intervals): encodeChannelStateCodes, then last = n.state
ConvertInterval ==
  /\ pc = "convert"
  /\ i < Size(intervals)
  /\ LET n == At(intervals, i)
         out == encodeChannelStateCodes(n.state, n.duration, last)
     IN /\ codeSequence' = codeSequence \o out
        /\ call' = [n |-> call.n + 1, next |-> n.state, duration |-> n.duration,
                    last |-> last, out |-> out]
        /\ last' = n.state
  /\ i' = i + 1
  /\ UNCHANGED <<pc, intervals>>
  /\ UNCHANGED TrackUnch

\* codeSequence.emplace_back(CODE_STOP)
ConvertStop ==
  /\ pc = "convert"
  /\ i = Size(intervals)
  /\ codeSequence' = Append(codeSequence, CODE_STOP)
  /\ pc' = "converted"
  /\ UNCHANGED <<i, last, call, intervals>>
  /\ UNCHANGED TrackUnch

TrackNext == CaptureTrack \/ ConvertInterval \/ ConvertStop

TrackSpec == TrackInit /\ [][TrackNext]_vars

\* 128 frames of (c=4, f=10, v=8), as captured
ConstantTone == [k \in 1..8 |-> [state |-> [c |-> 4, f |-> 10, v |-> 8], duration |-> 16]]

\* C14: 128 frames of (c=4, f=10, v=8) from the all-zero state give exactly one
\* WRITE_DELTA with all flags set, c=4 f=10 v=8 d=1, then four SUSTAIN(32),
\* then STOP.
ScenarioConstantTone ==
  (pc = "converted" /\ intervals = ConstantTone) =>
    codeSequence = <<CODE_WRITE_DELTA(CHANGE, 4, CHANGE, 10, CHANGE, 8, 1),
                     CODE_SUSTAIN(32), CODE_SUSTAIN(32), CODE_SUSTAIN(32), CODE_SUSTAIN(32),
                     CODE_STOP>>

\* C15: for an interval with a non-zero target volume in which a register
\* differs from the last state, exactly one WRITE_DELTA is written; its control
\* flag is set iff the control changed, its frequency flag iff the frequency or
\* the control changed, its volume flag iff the volume or the control changed;
\* the value field of a clear flag is 0 and the duration is 1.
ChangeFlags ==
  (call.n > 0 /\ call.next.v # 0 /\ call.next # call.last) =>
    /\ Len(call.out) >= 1
    /\ call.out[1].type = "WRITE_DELTA"
    /\ \A k \in 2..Len(call.out) : call.out[k].type # "WRITE_DELTA"
    /\ LET wd == call.out[1]
           control == call.next.c # call.last.c
       IN /\ (wd.cc = CHANGE) = control
          /\ (wd.fc = CHANGE) = (call.next.f # call.last.f \/ control)
          /\ (wd.vc = CHANGE) = (call.next.v # call.last.v \/ control)
          /\ wd.cc \in {NOOP, CHANGE} /\ wd.fc \in {NOOP, CHANGE} /\ wd.vc \in {NOOP, CHANGE}
          /\ wd.cc = NOOP => wd.cx = 0
          /\ wd.fc = NOOP => wd.fx = 0
          /\ wd.vc = NOOP => wd.vx = 0
          /\ wd.duration = 1

\* the control alone changed at a non-zero volume, after an interval where the
\* frequency alone had changed
ChangeFlagsWitness ==
  /\ call.n > 1
  /\ call.next.v # 0
  /\ call.next.c # call.last.c
  /\ call.next.f = call.last.f
  /\ call.next.v = call.last.v
  /\ HasType(call.out, "WRITE_DELTA")
  /\ \E k \in 1..Len(codeSequence) :
       /\ codeSequence[k].type = "WRITE_DELTA"
       /\ codeSequence[k].cc = NOOP /\ codeSequence[k].fc = CHANGE

\* the frames the codes of a sequence stand for
RECURSIVE Frames(_)
Frames(seq) == IF seq = <<>> THEN 0 ELSE seq[1].duration + Frames(Tail(seq))

\* C25: for an interval of duration d >= 1 the durations of the codes written,
\* 1 for the PAUSE or WRITE_DELTA and that of every SUSTAIN, sum to d; an
\* interval in the last state at a non-zero volume gives SUSTAINs of d frames
\* in total and never no code at all.
DurationPreserved ==
  (call.n > 0 /\ call.duration >= 1) =>
    /\ Frames(call.out) = call.duration
    /\ (call.next = call.last /\ call.next.v # 0) =>
         /\ call.out # <<>>
         /\ \A k \in 1..Len(call.out) : call.out[k].type = "SUSTAIN"

\* the volume of step k of a ramp from 0, one frame each
VolumeRamp(c, f) == [k \in 1..MaxRamp |-> [state |-> [c |-> c, f |-> f, v |-> k - 1], duration |-> 1]]

\* the WRITE_DELTAs of a sequence, in order
RECURSIVE WriteDeltas(_)
WriteDeltas(seq) ==
  IF seq = <<>> THEN <<>>
  ELSE (IF seq[1].type = "WRITE_DELTA" THEN <<seq[1]>> ELSE <<>>) \o WriteDeltas(Tail(seq))

\* C16: the volume field of a WRITE_DELTA with the volume flag set is 0x10 when
\* the target is last + 1, 0xf0 when it is last - 1, and the target otherwise;
\* a ramp 0, 1, ..., 7 of one frame each with control and frequency held gives
\* seven WRITE_DELTAs with only the volume flag set and the field 0x10.
VolumeSentinel ==
  /\ (call.n > 0 /\ HasType(call.out, "WRITE_DELTA") /\ call.out[1].vc = CHANGE) =>
       call.out[1].vx = IF call.next.v = call.last.v + 1 THEN 16
                        ELSE IF call.next.v = call.last.v - 1 THEN 240
                        ELSE call.next.v
  /\ \A c \in Controls, f \in Frequencies :
       (pc = "converted" /\ intervals = VolumeRamp(c, f)) =>
         WriteDeltas(codeSequence) = [k \in 1..(MaxRamp - 1) |-> CODE_WRITE_DELTA(NOOP, 0, NOOP, 0, CHANGE, 16, 1)]

\* the ramp up to 7 was converted at a control that is not the initial one
VolumeSentinelWitness ==
  /\ pc = "converted"
  /\ intervals = VolumeRamp(4, 10)
  /\ Len(WriteDeltas(codeSequence)) = MaxRamp - 1

-----------------------------------------------------------------------------
(* DivExportAtari2600::go, abort and hasFailed, and the loop of             *)
(* writeTrackDataTIAZip over the (subsong, channel) pairs                   *)

MaxSongs == 6          \* most subsongs of a song

Channels == 2          \* for (int channel = 0; channel < 2; channel += 1)

\* hasFailed(): return false
hasFailed == FALSE

DriverUnch == <<emitVars, huffVars, bitVars, captureVars, jumpVars, echoVars, encodeVars,
                compressVars>>

DriverInit ==
  /\ pc = "idle"
  /\ codeSequence = <<>>
  /\ last = ZeroState
  /\ call = NoCall
  /\ RestIdle
  /\ HuffmanIdle
  /\ BitstreamIdle
  /\ CompressIdle

\* go(eng) calls run(), which enters the loop over the pairs of the song
Go ==
  /\ pc = "idle"
  /\ numSongs' \in 1..MaxSongs
  /\ subsong' = 0
  /\ channel' = 0
  /\ pc' = "pairs"
  /\ UNCHANGED <<abortRequested, diverged, goResult>>
  /\ UNCHANGED DriverUnch

\* compressCodeSequence and validateCodeSequence for one pair; a divergence
\* fails an assert of the validator, which ends the process or, compiled
\* out, lets the loop go on
RunPair ==
  /\ pc = "pairs"
  /\ subsong < numSongs
  /\ \E divergence \in BOOLEAN, asserts \in BOOLEAN :
       IF divergence /\ asserts
       THEN /\ pc' = "assert"
            /\ diverged' = TRUE
            /\ UNCHANGED <<subsong, channel>>
       ELSE /\ diverged' = (diverged \/ divergence)
            /\ channel' = (channel + 1) % Channels
            /\ subsong' = IF channel + 1 = Channels THEN subsong + 1 ELSE subsong
            /\ UNCHANGED pc
  /\ UNCHANGED <<numSongs, abortRequested, goResult>>
  /\ UNCHANGED DriverUnch

\* the loop is over: run() returns, then return true
GoReturn ==
  /\ pc = "pairs"
  /\ subsong = numSongs
  /\ goResult' = TRUE
  /\ pc' = "returned"
  /\ UNCHANGED <<numSongs, subsong, channel, abortRequested, diverged>>
  /\ UNCHANGED DriverUnch

\* abort(), from the thread that started the export: the body is empty
Abort ==
  /\ pc \in {"idle", "pairs", "returned"}
  /\ abortRequested' = TRUE
  /\ UNCHANGED <<pc, numSongs, subsong, channel, diverged, goResult>>
  /\ UNCHANGED DriverUnch

DriverNext == Go \/ RunPair \/ GoReturn \/ Abort

DriverSpec == DriverInit /\ [][DriverNext]_vars

\* C17: once abort() has been called no further (subsong, channel) pair is
\* started.
NoPairAfterAbort ==
  [][(abortRequested /\ pc = "pairs") => (pc' = "returned" \/ <<subsong, channel>>' = <<subsong, channel>>)]_vars

\* C18: when go() has returned after a divergence found by the validator,
\* hasFailed() is true; go() true with hasFailed() false means no fatal error.
FailureReported ==
  pc = "returned" =>
    /\ diverged => hasFailed
    /\ (goResult /\ ~hasFailed) => ~diverged

-----------------------------------------------------------------------------
(* The jump lookup table of writeTrackDataTIAZip: jumpHeap, jumpMap and     *)
(* jumpAddresses                                                            *)

MaxJumpCodes == 50     \* most distinct JUMP codes of the compressed sequences
MaxJumpWeight == 3     \* largest frequency of a JUMP code

\* variant: one more index is let into the table
JumpIndexLimitWide == 31 + 1

JumpIndexLimit == 31   \* if (index > 31) continue

\* CompareFrequencies: the pair on top of the heap is a least frequent one,
\* the larger code among equals
CompareFrequenciesTop(h) ==
  CHOOSE x \in h : \A y \in h :
    \/ x.second < y.second
    \/ (x.second = y.second /\ x.first.address >= y.first.address)

\* the frequencies of n JUMP codes, following a pattern of period MaxJumpWeight
JumpFrequencyMaps ==
  {[c \in {CODE_JUMP(k) : k \in 1..n} |-> 1 + ((m * c.address + o) % MaxJumpWeight)] :
     n \in 0..MaxJumpCodes, m \in 0..(MaxJumpWeight - 1), o \in 0..(MaxJumpWeight - 1)}

JumpUnch == <<emitVars, huffVars, bitVars, captureVars, driverVars, echoVars, encodeVars,
              compressVars>>

\* jumpFrequencyMap as counted over the span sequences
JumpInit ==
  /\ pc = "jumps"
  /\ jumpFrequencyMap \in JumpFrequencyMaps
  /\ jumpHeap = {}
  /\ jumpMap = EmptyMap
  /\ jumpAddresses = <<>>
  /\ codeSequence = <<>>
  /\ last = ZeroState
  /\ call = NoCall
  /\ CaptureIdle
  /\ DriverIdle
  /\ EchoIdle
  /\ EncodeIdle
  /\ HuffmanIdle
  /\ BitstreamIdle
  /\ CompressIdle

\* for (auto &x: jumpFrequencyMap): a code seen once is left out of the heap
FillJumpHeap ==
  /\ pc = "jumps"
  /\ jumpHeap' = {[first |-> c, second |-> jumpFrequencyMap[c]] :
                    c \in {d \in DOMAIN jumpFrequencyMap : jumpFrequencyMap[d] # 1}}
  /\ pc' = "jumppop"
  /\ UNCHANGED <<jumpFrequencyMap, jumpMap, jumpAddresses>>
  /\ UNCHANGED JumpUnch

\* while (!jumpHeap.empty()): pop the top; index is the number left in the heap
PopJump ==
  /\ pc = "jumppop"
  /\ jumpHeap # {}
  /\ LET node == CompareFrequenciesTop(jumpHeap)
         rest == jumpHeap \ {node}
         idx == Cardinality(rest)
     IN /\ jumpHeap' = rest
        /\ jumpMap' = IF node.second <= 1 \/ idx > JumpIndexLimit THEN jumpMap
                      ELSE [c \in DOMAIN jumpMap \cup {node.first} |->
                              IF c = node.first THEN idx ELSE jumpMap[c]]
  /\ UNCHANGED <<pc, jumpFrequencyMap, jumpAddresses>>
  /\ UNCHANGED JumpUnch

\* jumpAddresses.resize(jumpMap.size())
ResizeJumpAddresses ==
  /\ pc = "jumppop"
  /\ jumpHeap = {}
  /\ jumpAddresses' = Zeros(Cardinality(DOMAIN jumpMap))
  /\ pc' = "jumpsdone"
  /\ UNCHANGED <<jumpFrequencyMap, jumpHeap, jumpMap>>
  /\ UNCHANGED JumpUnch

JumpNext == FillJumpHeap \/ PopJump \/ ResizeJumpAddresses

JumpSpec == JumpInit /\ [][JumpNext]_vars

\* the JUMP codes seen more than once
RepeatedJumps == {c \in DOMAIN jumpFrequencyMap : jumpFrequencyMap[c] > 1}

-----------------------------------------------------------------------------
(* HuffmanTree, buildHuffmanTree and HuffmanTree::buildIndex *)

MaxHuffCode == 2       \* largest code of a frequency map
MaxWeight == 3         \* largest frequency of a code
MaxLimit == 3          \* largest limit given to buildHuffmanTree
MaxStale == 2          \* most bits a walk through stale memory appends to a path

Wild == -1             \* what an uninitialised pointer holds when it is not NULL

HuffCodes == 0..MaxHuffCode

\* HuffmanTree(AlphaCode c, size_t weight)
Leaf(c, weight) ==
  [code |-> c, weight |-> weight, depth |-> 0, parent |-> NULL, left |-> NULL, right |-> NULL]

\* HuffmanTree(HuffmanTree *left, HuffmanTree *right): parent is not initialised,
\* so it holds whatever the allocation held
Internal(ns, l, r, garbage) ==
  [code |-> 0, weight |-> ns[l].weight + ns[r].weight,
   depth |-> 1 + (IF ns[l].depth > ns[r].depth THEN ns[l].depth ELSE ns[r].depth),
   parent |-> garbage, left |-> l, right |-> r]

isLeaf(n) == n.left = NULL /\ n.right = NULL

\* variant: among equal weights the smaller code has the higher priority
CompareSmallerCodeFirst(a, b) ==
  IF a.weight # b.weight THEN a.weight > b.weight ELSE a.code > b.code

\* CompareHuffmanTreeWeights: TRUE when a comes after b in the queue
CompareHuffmanTreeWeights(a, b) ==
  IF a.weight # b.weight THEN a.weight > b.weight ELSE a.code < b.code

\* heap.top(): a root no other root comes before; roots the comparator cannot
\* tell apart are popped in an order the queue's implementation decides
Top(ns, h) == {n \in h : \A m \in h : ~CompareHuffmanTreeWeights(ns[n], ns[m])}

Min(S) == CHOOSE x \in S : \A y \in S : x <= y

\* for (auto &x:frequencyMap), in key order: a code seen once goes to the literal
RECURSIVE FillHeap(_, _)
FillHeap(fm, keys) ==
  IF keys = {} THEN <<>>
  ELSE LET k == Min(keys)
       IN (IF fm[k] = 1 THEN <<>> ELSE <<Leaf(k, fm[k])>>) \o FillHeap(fm, keys \ {k})

HuffmanUnch == <<emitVars, bitVars, restVars, compressVars>>

FrequencyMaps == UNION {[keys -> 1..MaxWeight] : keys \in SUBSET HuffCodes}

HuffmanInit ==
  /\ pc = "build"
  /\ frequencyMap \in FrequencyMaps
  /\ limit \in 0..MaxLimit
  /\ literal \in HuffCodes
  /\ nodes = <<>>
  /\ heap = {}
  /\ literal_weight = 0
  /\ root = NULL
  /\ stack = <<>>
  /\ index = <<>>
  /\ codeSequence = <<>>
  /\ last = ZeroState
  /\ call = NoCall
  /\ RestIdle
  /\ BitstreamIdle
  /\ CompressIdle

\* the first loop of buildHuffmanTree
BuildFill ==
  /\ pc = "build"
  /\ nodes' = FillHeap(frequencyMap, DOMAIN frequencyMap)
  /\ heap' = 1..Len(nodes')
  /\ literal_weight' = Cardinality({k \in DOMAIN frequencyMap : frequencyMap[k] = 1})
  /\ pc' = "cull"
  /\ UNCHANGED <<frequencyMap, limit, literal, root, stack, index>>
  /\ UNCHANGED HuffmanUnch

\* while (heap.size() > limit): the top goes to the literal
BuildCull ==
  /\ pc = "cull"
  /\ Cardinality(heap) > limit
  /\ \E node \in Top(nodes, heap) :
       /\ heap' = heap \ {node}
       /\ literal_weight' = literal_weight + nodes[node].weight
  /\ UNCHANGED <<pc, frequencyMap, limit, literal, nodes, root, stack, index>>
  /\ UNCHANGED HuffmanUnch

\* if (literal_weight > 0): the literal leaf
BuildLiteral ==
  /\ pc = "cull"
  /\ Cardinality(heap) <= limit
  /\ IF literal_weight > 0
     THEN /\ nodes' = Append(nodes, Leaf(literal, literal_weight))
          /\ heap' = heap \cup {Len(nodes) + 1}
     ELSE UNCHANGED <<nodes, heap>>
  /\ pc' = "join"
  /\ UNCHANGED <<frequencyMap, limit, literal, literal_weight, root, stack, index>>
  /\ UNCHANGED HuffmanUnch

\* while (heap.size() > 1): join the two tops; the constructor's asserts read
\* the parent of both, then set it
BuildJoin ==
  /\ pc = "join"
  /\ Cardinality(heap) > 1
  /\ \E left \in Top(nodes, heap) :
       \E right \in Top(nodes, heap \ {left}) :
         \E garbage \in {NULL, Wild} :
           IF nodes[left].parent # NULL \/ nodes[right].parent # NULL
           THEN /\ pc' = "assert"
                /\ UNCHANGED <<nodes, heap>>
           ELSE LET node == Len(nodes) + 1
                    joined == Append(nodes, Internal(nodes, left, right, garbage))
                IN /\ nodes' = [joined EXCEPT ![left].parent = node, ![right].parent = node]
                   /\ heap' = (heap \ {left, right}) \cup {node}
                   /\ UNCHANGED pc
  /\ UNCHANGED <<frequencyMap, limit, literal, literal_weight, root, stack, index>>
  /\ UNCHANGED HuffmanUnch

\* return heap.top(), then buildIndex: stack.emplace_back(this).
\* The top of an empty queue is undefined.
BuildReturn ==
  /\ pc = "join"
  /\ Cardinality(heap) <= 1
  /\ IF heap = {}
     THEN /\ pc' = "ub"
          /\ UNCHANGED <<root, stack>>
     ELSE /\ root' = CHOOSE n \in heap : TRUE
          /\ stack' = <<root'>>
          /\ pc' = "index"
  /\ UNCHANGED <<frequencyMap, limit, literal, nodes, heap, literal_weight, index>>
  /\ UNCHANGED HuffmanUnch

\* the bits writePath appends on the way from n up to the node whose parent is
\* NULL or was never initialised, the leaf's bit first
RECURSIVE writePath(_, _)
writePath(ns, n) ==
  IF ns[n].parent \in {NULL, Wild} THEN <<>>
  ELSE <<n = ns[ns[n].parent].left>> \o writePath(ns, ns[n].parent)

\* the node at which that walk stops
RECURSIVE PathEnd(_, _)
PathEnd(ns, n) ==
  IF ns[n].parent \in {NULL, Wild} THEN n ELSE PathEnd(ns, ns[n].parent)

\* current->parent->left read through a pointer that was never initialised:
\* the walk goes on through stale memory until it reads a NULL parent there,
\* one bit per object it passes; current is not the left child of memory
\* that is no tree, so each of these bits is false
StaleWalks == {[k \in 1..n |-> FALSE] : n \in 1..MaxStale}

\* index[code] is created empty on first use; a path is appended to it
AppendPath(idx, code, path) ==
  IF code \in DOMAIN idx THEN [idx EXCEPT ![code] = @ \o path]
  ELSE idx @@ (code :> path)

\* one turn of the while loop of buildIndex
buildIndex ==
  /\ pc = "index"
  /\ stack # <<>>
  /\ LET n == stack[Len(stack)]
         rest == SubSeq(stack, 1, Len(stack) - 1)
         pushLeft == IF nodes[n].left # NULL THEN Append(rest, nodes[n].left) ELSE rest
         pushed == IF nodes[n].right # NULL THEN Append(pushLeft, nodes[n].right)
                   ELSE pushLeft
     IN IF isLeaf(nodes[n])
        THEN IF nodes[PathEnd(nodes, n)].parent = Wild
             THEN \/ /\ pc' = "ub"
                     /\ UNCHANGED <<stack, index>>
                  \/ \E stale \in StaleWalks :
                       /\ index' = AppendPath(index, nodes[n].code,
                                              writePath(nodes, n) \o stale)
                       /\ stack' = rest
                       /\ pc' = IF rest = <<>> THEN "indexed" ELSE "index"
             ELSE /\ index' = AppendPath(index, nodes[n].code, writePath(nodes, n))
                  /\ stack' = rest
                  /\ pc' = IF rest = <<>> THEN "indexed" ELSE "index"
        ELSE /\ stack' = pushed
             /\ UNCHANGED <<pc, index>>
  /\ UNCHANGED <<frequencyMap, limit, literal, nodes, heap, literal_weight, root>>
  /\ UNCHANGED HuffmanUnch

HuffmanNext ==
  \/ BuildFill
  \/ BuildCull
  \/ BuildLiteral
  \/ BuildJoin
  \/ BuildReturn
  \/ buildIndex

HuffmanSpec == HuffmanInit /\ [][HuffmanNext]_vars

Reverse(w) == [k \in 1..Len(w) |-> w[Len(w) + 1 - k]]
IsPrefix(a, b) == Len(a) <= Len(b) /\ SubSeq(b, 1, Len(a)) = a

\* C9: once buildIndex has finished, no code word of the index, read
\* root-to-leaf, is a prefix of the code word of another key.
PrefixFree ==
  pc = "indexed" =>
    \A a \in DOMAIN index : \A b \in DOMAIN index :
      a # b => ~IsPrefix(Reverse(index[a]), Reverse(index[b]))

-----------------------------------------------------------------------------
(* Bitstream: the same bits written in two runs, then read back as bytes *)

MaxCapacity == 10      \* largest capacity, in bits, of a Bitstream

WordBits == 64         \* uint64_t
IntBits == 32          \* int, the type of the literal 1 in 1 << s

\* size_t elements = capacity / 64, one more when capacity % 64 > 0
Elements(cap) == (cap \div WordBits) + (IF cap % WordBits > 0 THEN 1 ELSE 0)

\* new uint64_t[elements] is not zeroed: a word holds what the allocation held
GarbageWords == {{}, 0..(WordBits - 1), {b \in 0..(WordBits - 1) : b % 2 = 0}}

\* uint64_t mask = 1 << s, shifted as an int: bit s below bit 31, the sign
\* extension of INT_MIN at 31; a shift by 32 or more is undefined and gives
\* the shift by s - 32 or nothing
MaskOfShift(s) == IF s < IntBits - 1 THEN {s} ELSE (IntBits - 1)..(WordBits - 1)
Masks(s) == IF s < IntBits THEN {MaskOfShift(s)} ELSE {MaskOfShift(s - IntBits), {}}

\* the buffer after writeBit(bit) at position p with the mask given
writeBit(buf, p, bit, mask) ==
  LET address == p \div WordBits
  IN [buf EXCEPT ![address + 1] = IF bit THEN @ \cup mask ELSE @ \ mask]

RECURSIVE ByteValue(_)
ByteValue(bs) ==
  IF bs = {} THEN 0
  ELSE LET b == Min(bs) IN 2^b + ByteValue(bs \ {b})

\* readByte at position p: the low part from buffer[address] >> s and, when the
\* byte ends in the next word, buffer[address] << (8 - (p + 8) % 64)
readByte(buf, p) ==
  LET s == p % WordBits
      address == p \div WordBits
      next == (p + 8) \div WordBits
      word == buf[address + 1]
      low == {b \in 0..7 : b + s \in word}
      s2 == 8 - ((p + 8) % WordBits)
      high == IF next > address THEN {b \in 0..7 : b >= s2 /\ (b - s2) \in word} ELSE {}
  IN ByteValue(low \cup high)

BitstreamUnch == <<emitVars, huffVars, restVars, compressVars>>

\* Bitstream(capacity) in each run: pos(0), endPos(0), the buffer as allocated
BitstreamInit ==
  /\ pc = "write"
  /\ capacity \in 1..MaxCapacity
  /\ buffer \in [Runs -> [1..Elements(capacity) -> GarbageWords]]
  /\ pos = 0
  /\ endPos = 0
  /\ bytes = [r \in Runs |-> <<>>]
  /\ codeSequence = <<>>
  /\ last = ZeroState
  /\ call = NoCall
  /\ RestIdle
  /\ HuffmanIdle
  /\ CompressIdle

\* writeBit(bit), the same bit in both runs
WriteBit ==
  /\ pc = "write"
  /\ IF pos < capacity
     THEN \E bit \in BOOLEAN : \E mask \in Masks(pos % WordBits) :
            /\ buffer' = [r \in Runs |-> writeBit(buffer[r], pos, bit, mask)]
            /\ pos' = pos + 1
            /\ endPos' = IF pos + 1 > endPos THEN pos + 1 ELSE endPos
            /\ UNCHANGED pc
     ELSE /\ pc' = "assert"
          /\ UNCHANGED <<buffer, pos, endPos>>
  /\ UNCHANGED <<capacity, bytes>>
  /\ UNCHANGED BitstreamUnch

\* seek(0) before the stream is written out
SeekStart ==
  /\ pc = "write"
  /\ pos' = 0
  /\ pc' = "read"
  /\ UNCHANGED <<buffer, capacity, endPos, bytes>>
  /\ UNCHANGED BitstreamUnch

\* while (hasBits()) uc = readByte()
ReadByte ==
  /\ pc = "read"
  /\ pos < endPos
  /\ bytes' = [r \in Runs |-> Append(bytes[r], readByte(buffer[r], pos))]
  /\ pos' = pos + 8
  /\ UNCHANGED <<pc, buffer, capacity, endPos>>
  /\ UNCHANGED BitstreamUnch

\* hasBits() is false: the stream has been written out
ReadEnd ==
  /\ pc = "read"
  /\ ~(pos < endPos)
  /\ pc' = "written"
  /\ UNCHANGED <<buffer, capacity, pos, endPos, bytes>>
  /\ UNCHANGED BitstreamUnch

BitstreamNext == WriteBit \/ SeekStart \/ ReadByte \/ ReadEnd

BitstreamSpec == BitstreamInit /\ [][BitstreamNext]_vars

\* C10: two runs that write the same bits read back the same bytes, the
\* padding bits of the last byte included.
DeterministicOutput == pc = "written" => bytes[1] = bytes[2]

-----------------------------------------------------------------------------
(* Properties of the tree buildHuffmanTree returns *)

\* the leaves below node n
RECURSIVE TreeLeaves(_, _)
TreeLeaves(ns, n) ==
  IF isLeaf(ns[n]) THEN {n}
  ELSE TreeLeaves(ns, ns[n].left) \cup TreeLeaves(ns, ns[n].right)

RECURSIVE SumOver(_, _)
SumOver(fm, keys) ==
  IF keys = {} THEN 0
  ELSE LET k == Min(keys) IN fm[k] + SumOver(fm, keys \ {k})

\* the leaves made for the codes of the frequency map, which are allocated
\* first; the literal leaf is allocated after them
CodeLeaves ==
  {n \in TreeLeaves(nodes, root) :
     n <= Cardinality({k \in DOMAIN frequencyMap : frequencyMap[k] # 1})}
LiteralLeaves == TreeLeaves(nodes, root) \ CodeLeaves
Culled == {k \in DOMAIN frequencyMap : \A n \in CodeLeaves : nodes[n].code # k}

\* C20: the tree has at most limit leaves in total; when codes have no leaf of
\* their own there is one literal leaf, whose weight is the sum of their
\* frequencies; the weight of the root is the sum of all frequencies.
LiteralEscape ==
  root # NULL =>
    /\ Cardinality(TreeLeaves(nodes, root)) <= limit
    /\ Culled # {} =>
         /\ Cardinality(LiteralLeaves) = 1
         /\ \A n \in LiteralLeaves : nodes[n].weight = SumOver(frequencyMap, Culled)
    /\ nodes[root].weight = SumOver(frequencyMap, DOMAIN frequencyMap)

\* a step of the join loop that allocates the joined node
Joins == pc = "join" /\ pc' = "join" /\ Len(nodes') = Len(nodes) + 1

\* the two roots popped are minimum-weight roots and the joined node weighs their sum
JoinsTwoMinima(left, right) ==
  /\ left \in heap
  /\ right \in heap \ {left}
  /\ \A m \in heap : nodes[left].weight <= nodes[m].weight
  /\ \A m \in heap \ {left} : nodes[right].weight <= nodes[m].weight
  /\ nodes'[Len(nodes')].weight = nodes[left].weight + nodes[right].weight

\* the roots of h that weigh as much as n
EqualWeight(h, n) == {m \in h : nodes[m].weight = nodes[n].weight}

\* C23, as the code has it: buildHuffmanTree joins the two minimum-weight roots
\* under a node whose weight is their sum; among roots of equal weight the one
\* with the larger code is popped first.
LargerCodeFirst ==
  [][Joins =>
       LET left == nodes'[Len(nodes')].left
           right == nodes'[Len(nodes')].right
       IN /\ JoinsTwoMinima(left, right)
          /\ \A m \in EqualWeight(heap, left) : nodes[m].code <= nodes[left].code
          /\ \A m \in EqualWeight(heap \ {left}, right) : nodes[m].code <= nodes[right].code]_vars

\* a join has popped a leaf while another leaf of the same weight and another
\* code, still a root now, was in the queue
LargerCodeFirstWitness ==
  /\ pc = "join"
  /\ \E n \in 1..Len(nodes), m \in heap :
       /\ ~isLeaf(nodes[n])
       /\ isLeaf(nodes[m])
       /\ \E child \in {nodes[n].left, nodes[n].right} :
            /\ isLeaf(nodes[child])
            /\ nodes[child].weight = nodes[m].weight
            /\ nodes[child].code # nodes[m].code

\* C23: buildHuffmanTree joins the two minimum-weight roots under a node whose
\* weight is their sum; among roots of equal weight the one with the smaller
\* code is popped first.
SmallerCodeFirst ==
  [][Joins =>
       LET left == nodes'[Len(nodes')].left
           right == nodes'[Len(nodes')].right
       IN /\ JoinsTwoMinima(left, right)
          /\ \A m \in EqualWeight(heap, left) : nodes[m].code >= nodes[left].code
          /\ \A m \in EqualWeight(heap \ {left}, right) : nodes[m].code >= nodes[right].code]_vars

-----------------------------------------------------------------------------
(* Bitstream under any sequence of its operations *)

MaxSeek == 11          \* largest index given to seek; reads stop past it

\* the buffers after n calls of writeBit(bit) from position p
RECURSIVE writeBits(_, _, _, _)
writeBits(bufs, p, bit, n) ==
  IF n = 0 THEN bufs
  ELSE writeBits({[r \in Runs |-> writeBit(b[r], p, bit, mask)] :
                    b \in bufs, mask \in Masks(p % WordBits)}, p + 1, bit, n - 1)

\* Bitstream(capacity), the two objects over the same allocation
BitstreamOpsInit ==
  /\ pc = "ops"
  /\ capacity \in 1..MaxCapacity
  /\ \E b \in [1..Elements(capacity) -> GarbageWords] : buffer = [r \in Runs |-> b]
  /\ pos = 0
  /\ endPos = 0
  /\ bytes = [r \in Runs |-> <<>>]
  /\ codeSequence = <<>>
  /\ last = ZeroState
  /\ call = NoCall
  /\ RestIdle
  /\ HuffmanIdle
  /\ CompressIdle

\* writeBit(bit)
OpWriteBit ==
  /\ pc = "ops"
  /\ IF pos < capacity
     THEN \E bit \in BOOLEAN :
            /\ buffer' \in writeBits({buffer}, pos, bit, 1)
            /\ pos' = pos + 1
            /\ endPos' = IF pos + 1 > endPos THEN pos + 1 ELSE endPos
            /\ UNCHANGED pc
     ELSE /\ pc' = "assert"
          /\ UNCHANGED <<buffer, pos, endPos>>
  /\ UNCHANGED <<capacity, bytes>>
  /\ UNCHANGED BitstreamUnch

\* writeByte(byte): eight times writeBit(byte & mask > 0), which is
\* writeBit(byte & 1); the assert of writeBit stops it at the capacity
OpWriteByte ==
  /\ pc = "ops"
  /\ \E byte \in {0, 1, 128, 255} :
       LET n == IF capacity - pos >= 8 THEN 8
                ELSE IF capacity > pos THEN capacity - pos ELSE 0
       IN /\ buffer' \in writeBits({buffer}, pos, byte % 2 = 1, n)
          /\ pos' = pos + n
          /\ endPos' = IF pos + n > endPos THEN pos + n ELSE endPos
          /\ pc' = IF n < 8 THEN "assert" ELSE pc
  /\ UNCHANGED <<capacity, bytes>>
  /\ UNCHANGED BitstreamUnch

\* readBit(): address = pos >> 64 is a shift by the width of size_t, which
\* gives pos or 0; a word outside the buffer is read when it gives pos
OpReadBit ==
  /\ pc = "ops"
  /\ pos <= MaxSeek
  /\ \E address \in {pos, 0} :
       pc' = IF address < Elements(capacity) THEN pc ELSE "ub"
  /\ pos' = pos + 1
  /\ UNCHANGED <<buffer, capacity, endPos, bytes>>
  /\ UNCHANGED BitstreamUnch

\* readByte(): the value goes to the caller
OpReadByte ==
  /\ pc = "ops"
  /\ pos <= MaxSeek
  /\ pc' = IF pos \div WordBits < Elements(capacity) THEN pc ELSE "ub"
  /\ pos' = pos + 8
  /\ UNCHANGED <<buffer, capacity, endPos, bytes>>
  /\ UNCHANGED BitstreamUnch

\* seek(index)
OpSeek ==
  /\ pc = "ops"
  /\ \E idx \in 0..MaxSeek : pos' = idx
  /\ UNCHANGED <<pc, buffer, capacity, endPos, bytes>>
  /\ UNCHANGED BitstreamUnch

BitstreamOpsNext == OpWriteBit \/ OpWriteByte \/ OpReadBit \/ OpReadByte \/ OpSeek

BitstreamOpsSpec == BitstreamOpsInit /\ [][BitstreamOpsNext]_vars

\* C13: in every state reachable by writeBit, writeByte, readBit, readByte and
\* seek the read cursor is not past the end of the written bits: endPos >= pos.
CursorWithinEnd == pc = "ops" => endPos >= pos

-----------------------------------------------------------------------------
(* readByte at any position of a Bitstream of two words *)

TwoWords == 2 * WordBits

\* Bitstream(128): the buffer as allocated
WideInit ==
  /\ pc = "wide"
  /\ capacity = TwoWords
  /\ buffer \in [Runs -> [1..Elements(TwoWords) -> GarbageWords]]
  /\ pos = 0
  /\ endPos = 0
  /\ bytes = [r \in Runs |-> <<>>]
  /\ codeSequence = <<>>
  /\ last = ZeroState
  /\ call = NoCall
  /\ RestIdle
  /\ HuffmanIdle
  /\ CompressIdle

\* seek(index), to a position with eight bits of the buffer after it
WideSeek ==
  /\ pc = "wide"
  /\ \E idx \in 0..(TwoWords - 8) : pos' = idx
  /\ pc' = "sought"
  /\ UNCHANGED <<buffer, capacity, endPos, bytes>>
  /\ UNCHANGED BitstreamUnch

\* readByte()
WideReadByte ==
  /\ pc = "sought"
  /\ bytes' = [r \in Runs |-> Append(bytes[r], readByte(buffer[r], pos))]
  /\ pos' = pos + 8
  /\ pc' = "wideread"
  /\ UNCHANGED <<buffer, capacity, endPos>>
  /\ UNCHANGED BitstreamUnch

WideNext == WideSeek \/ WideReadByte

WideSpec == WideInit /\ [][WideNext]_vars

\* the byte made of the bits p .. p+7 of a buffer, bit p the least significant
BitAt(buf, q) == (q % WordBits) \in buf[(q \div WordBits) + 1]
ByteAt(buf, p) == ByteValue({b \in 0..7 : BitAt(buf, p + b)})

\* C24: readByte returns the eight bits stored at pos .. pos+7, bit pos the
\* least significant, and advances the cursor by 8, also when the bits lie in
\* two words of the buffer.
ReadByteExact ==
  [][pc = "sought" =>
       /\ pos' = pos + 8
       /\ \A r \in Runs : bytes'[r][Len(bytes'[r])] = ByteAt(buffer[r], pos)]_vars

-----------------------------------------------------------------------------
(* Properties of the greedy parse *)

AfterParse == pc \in {"skipmap", "rewrite", "traverse", "fixup", "validate", "done"}

\* the first positions of the literal spans: a literal span starts at the
\* position the parse had reached, a back-reference span before it
RECURSIVE LiteralStarts(_, _, _)
LiteralStarts(sp, n, cursor) ==
  IF n > Len(sp) THEN {}
  ELSE (IF sp[n].start = cursor THEN {cursor} ELSE {})
         \cup LiteralStarts(sp, n + 1, cursor + sp[n].length)

\* a back-reference span whose source runs into the positions it is copied to
RECURSIVE HasOverlap(_, _, _)
HasOverlap(sp, n, cursor) ==
  IF n > Len(sp) THEN FALSE
  ELSE \/ (sp[n].start < cursor /\ sp[n].start + sp[n].length > cursor)
       \/ HasOverlap(sp, n + 1, cursor + sp[n].length)

\* C11: after the greedy parse copyMap[i] <= i for every position i, and
\* copyMap[i] = i at the first position of every literal span.
CopyMapInvariant ==
  AfterParse =>
    /\ \A k \in 0..(Size(copyMap) - 1) : At(copyMap, k) <= k
    /\ \A k \in LiteralStarts(spans, 1, 0) : At(copyMap, k) = k

\* a parse that took an overlapping back-reference and went on with a literal span
CopyMapInvariantWitness ==
  /\ pc = "skipmap"
  /\ HasOverlap(spans, 1, 0)
  /\ Cardinality(LiteralStarts(spans, 1, 0)) > 1

-----------------------------------------------------------------------------
(* Properties of skipMap *)

AfterSkipMap == pc \in {"rewrite", "traverse", "fixup", "validate", "done"}

\* the successors of src other than its physical neighbour
OtherSuccessors(src) == DOMAIN At(branchFrequencyMap, src) \ {src + 1}

\* k has the highest count among the successors in cand
HighestCount(src, cand, k) ==
  /\ k \in cand
  /\ \A x \in cand : At(branchFrequencyMap, src)[x] <= At(branchFrequencyMap, src)[k]

\* C12, as the code has it: for every position src with a successor position,
\* skipMap[src] is a successor with the highest count among those other than
\* src + 1, and copyMap[src + 1] when there is none.
SkipMapDefinition ==
  AfterSkipMap =>
    \A src \in 0..(Size(skipMap) - 2) :
      IF OtherSuccessors(src) = {}
      THEN At(skipMap, src) = At(copyMap, src + 1)
      ELSE HighestCount(src, OtherSuccessors(src), At(skipMap, src))

\* skipMap was built over a table that holds the neighbour and another
\* successor, and over a table whose only entry is not the neighbour
SkipMapDefinitionWitness ==
  /\ pc = "rewrite"
  /\ \E src \in 0..(Size(skipMap) - 2) :
       /\ src + 1 \in DOMAIN At(branchFrequencyMap, src)
       /\ OtherSuccessors(src) # {}
  /\ \E src \in 0..(Size(skipMap) - 2) :
       /\ Cardinality(DOMAIN At(branchFrequencyMap, src)) = 1
       /\ OtherSuccessors(src) # {}

\* C12: skipMap[src] is the successor with the highest count that is not
\* src + 1, and it is src + 1 when branchFrequencyMap[src] has fewer than two
\* entries.
SkipMapAsSpecified ==
  AfterSkipMap =>
    \A src \in 0..(Size(skipMap) - 2) :
      IF Cardinality(DOMAIN At(branchFrequencyMap, src)) < 2
      THEN At(skipMap, src) = src + 1
      ELSE HighestCount(src, OtherSuccessors(src), At(skipMap, src))

-----------------------------------------------------------------------------
(* Properties of the control-flow rewriter *)

\* the traversal is at a position of a literal span that is not the STOP
\* and has a successor
AtLiteral ==
  /\ pc = "traverse"
  /\ ~repeatSpan
  /\ i < At(spans, spanIdx).start + At(spans, spanIdx).length
  /\ At(codeSequence, i) # CODE_STOP
  /\ i + 1 < Size(copyMap)

\* what the table prescribes after the literal at position k
DataAfter(k) ==
  LET next == At(copyMap, k + 1)
      tableSize == Cardinality(DOMAIN At(branchFrequencyMap, k))
  IN IF next = k + 1 /\ tableSize < 2 THEN <<>>
     ELSE IF tableSize < 2 THEN <<CODE_TAKE_DATA_JUMP, CODE_JUMP(At(skipMap, k))>>
     ELSE <<CODE_BRANCH_POINT, CODE_JUMP(At(skipMap, k))>>

SpanAfter(k) ==
  LET next == At(copyMap, k + 1)
      tableSize == Cardinality(DOMAIN At(branchFrequencyMap, k))
  IN IF tableSize < 2 THEN <<>>
     ELSE IF next = At(skipMap, k) THEN <<CODE_TAKE_DATA_JUMP>>
     ELSE IF next = k + 1 THEN <<CODE_SKIP>>
     ELSE <<CODE_TAKE_TRACK_JUMP, CODE_JUMP(next)>>

\* the position at which the decoder goes on after the codes written at k
ContinuesAt(k) ==
  IF DataAfter(k) = <<>> THEN k + 1
  ELSE IF SpanAfter(k) = <<>> THEN At(skipMap, k)
  ELSE IF SpanAfter(k) = <<CODE_TAKE_DATA_JUMP>> THEN At(skipMap, k)
  ELSE IF SpanAfter(k) = <<CODE_SKIP>> THEN k + 1
  ELSE SpanAfter(k)[2].address

\* C21: at a literal position i with a successor, next = copyMap[i+1] and
\* T = branchFrequencyMap[i]: nothing follows the literal when next = i+1 and
\* |T| < 2; else with |T| < 2 the data stream gets TAKE_DATA_JUMP, JUMP(skipMap[i])
\* and the span stream nothing; else the data stream gets BRANCH_POINT,
\* JUMP(skipMap[i]) and the span stream one decision, TAKE_DATA_JUMP when
\* next = skipMap[i], SKIP when next = i+1, otherwise TAKE_TRACK_JUMP, JUMP(next);
\* and the decoder then goes on at next.
BranchDecisionTable ==
  [][AtLiteral =>
       /\ end = i
       /\ compressedCodeSequence' =
            Append(compressedCodeSequence, At(codeSequence, i)) \o DataAfter(i)
       /\ spanSequence' = spanSequence \o SpanAfter(i)
       /\ ContinuesAt(i) = At(copyMap, i + 1)]_vars

\* every row of the table has been used
BranchDecisionTableWitness ==
  /\ pc = "fixup"
  /\ HasCode(compressedCodeSequence, CODE_TAKE_DATA_JUMP)
  /\ HasCode(compressedCodeSequence, CODE_BRANCH_POINT)
  /\ HasCode(spanSequence, CODE_TAKE_DATA_JUMP)
  /\ HasCode(spanSequence, CODE_SKIP)
  /\ HasCode(spanSequence, CODE_TAKE_TRACK_JUMP)

-----------------------------------------------------------------------------
(* Properties of the return fix-up *)

\* the replay is at a BRANCH_POINT whose decision is a TAKE_TRACK_JUMP
\* followed by its JUMP
AtTrackJump ==
  /\ pc = "fixup"
  /\ InRange(compressedCodeSequence, nextReadAddress)
  /\ At(compressedCodeSequence, nextReadAddress) = CODE_BRANCH_POINT
  /\ InRange(spanSequence, nextSpanAddress + 1)
  /\ At(spanSequence, nextSpanAddress) = CODE_TAKE_TRACK_JUMP
  /\ GET_CODE_TYPE(At(spanSequence, nextSpanAddress + 1)) = "JUMP"

\* C22: the fix-up rewrites a TAKE_TRACK_JUMP to RETURN_LAST exactly when its
\* target is the most recent return address, otherwise to RETURN_FF exactly
\* when its target is the high-water mark; in both cases the JUMP after it
\* becomes RETURN_NOOP; no other entry of spanSequence changes and its length
\* stays.
ReturnFixup ==
  [][pc = "fixup" =>
       /\ Len(spanSequence') = Len(spanSequence)
       /\ IF AtTrackJump
          THEN LET target == GET_CODE_JUMP_ADDRESS(At(spanSequence, nextSpanAddress + 1))
                   decision == At(spanSequence', nextSpanAddress)
                   slot == At(spanSequence', nextSpanAddress + 1)
               IN /\ (decision = CODE_RETURN_LAST) = (target = returnAddress)
                  /\ (decision = CODE_RETURN_FF) = (target # returnAddress /\ target = maxOffset)
                  /\ decision \in {CODE_RETURN_LAST, CODE_RETURN_FF, CODE_TAKE_TRACK_JUMP}
                  /\ slot = IF decision = CODE_TAKE_TRACK_JUMP
                            THEN At(spanSequence, nextSpanAddress + 1) ELSE CODE_RETURN_NOOP
                  /\ \A k \in 0..(Size(spanSequence) - 1) :
                       k \notin {nextSpanAddress, nextSpanAddress + 1} =>
                         At(spanSequence', k) = At(spanSequence, k)
          ELSE spanSequence' = spanSequence]_vars

\* the fix-up has made a RETURN_LAST and a RETURN_FF
ReturnFixupWitness ==
  /\ pc = "validate"
  /\ HasCode(spanSequence, CODE_RETURN_LAST)
  /\ HasCode(spanSequence, CODE_RETURN_FF)
  /\ HasCode(spanSequence, CODE_RETURN_NOOP)

-----------------------------------------------------------------------------
(* Properties of the indices read by compressCodeSequence *)

\* the indices i + 1 at which the skipMap loop reads copyMap, for every i
\* below branchFrequencyMap.size()
SkipMapReads == {src + 1 : src \in 0..(Size(branchFrequencyMap) - 1)}

\* C28: when the skipMap loop starts, every index at which it reads copyMap
\* is below copyMap.size()
IndexSafety ==
  pc = "skipmap" => \A k \in SkipMapReads : k < Size(copyMap)

-----------------------------------------------------------------------------
(* Properties of buildHuffmanTree on degenerate frequency maps *)

\* a leaf, or a node with two children
WellFormed(n) ==
  isLeaf(nodes[n]) \/ (nodes[n].left # NULL /\ nodes[n].right # NULL)

\* C29: when buildHuffmanTree comes to return heap.top() the queue is not
\* empty, and the root it returns is a leaf or has two children
DegenerateBuild ==
  /\ pc = "join" => heap # {}
  /\ root # NULL => WellFormed(root)

-----------------------------------------------------------------------------
(* The address of a JUMP word: CODE_JUMP and GET_CODE_JUMP_ADDRESS *)

MaxAddress == 8200     \* largest position of a sequence stored in a JUMP

\* no code has been written yet
JumpWordInit ==
  /\ pc = "jumpword"
  /\ codeSequence = <<>>
  /\ last = ZeroState
  /\ call = NoCall
  /\ RestIdle
  /\ HuffmanIdle
  /\ BitstreamIdle
  /\ CompressIdle

\* compressedCodeSequence.emplace_back(CODE_JUMP(subsong, channel, address))
StoreJump ==
  /\ pc = "jumpword"
  /\ \E address \in 0..MaxAddress :
       compressedCodeSequence' = Append(compressedCodeSequence, CODE_JUMP(address))
  /\ pc' = "jumpstored"
  /\ UNCHANGED <<emitVars, huffVars, bitVars, restVars, codeSequence, spanSequence, i,
                 copyMap, branchFrequencyMap, spans, currentSpan, skipMap, labels, end,
                 spanIdx, repeatSpan, maxOffset, returnAddress, nextReadAddress,
                 nextSpanAddress, vNextReadAddress, it, compareAddress, vMaxOffset,
                 vReturnAddress, emitted>>

\* GET_CODE_JUMP_ADDRESS(c) of the word that was stored
LoadJump ==
  /\ pc = "jumpstored"
  /\ nextReadAddress' = GET_CODE_JUMP_ADDRESS(At(compressedCodeSequence, 0))
  /\ pc' = "jumploaded"
  /\ UNCHANGED <<emitVars, huffVars, bitVars, restVars, codeSequence, compressedCodeSequence,
                 spanSequence, i, copyMap, branchFrequencyMap, spans, currentSpan, skipMap,
                 labels, end, spanIdx, repeatSpan, maxOffset, returnAddress,
                 nextSpanAddress, vNextReadAddress, it, compareAddress, vMaxOffset,
                 vReturnAddress, emitted>>

JumpWordNext == StoreJump \/ LoadJump

JumpWordSpec == JumpWordInit /\ [][JumpWordNext]_vars

\* C27: the address read from a JUMP word with GET_CODE_JUMP_ADDRESS is the
\* address CODE_JUMP stored in it, for every position of a sequence
JumpAddressRoundTrip ==
  pc = "jumploaded" => nextReadAddress = At(compressedCodeSequence, 0).address

-----------------------------------------------------------------------------
(* Bitstream: bits written from position 0, then read back with readBit *)

MaxEcho == 34          \* most bits written and read back

\* the eight bits of a byte, the most significant first: the order in which
\* the mask of writeByte runs from 0x80 down
ByteBits(byte) == [k \in 1..8 |-> (byte \div 2^(8 - k)) % 2 = 1]

\* the bit sequences written: every byte, and runs of equal or alternating bits
EchoInputs ==
  {ByteBits(byte) : byte \in 0..255}
    \cup {[k \in 1..n |-> b] : n \in 0..MaxEcho, b \in BOOLEAN}
    \cup {[k \in 1..n |-> k % 2 = r] : n \in 0..MaxEcho, r \in {0, 1}}

\* Bitstream(capacity), with room for the bits and as allocated
EchoInit ==
  /\ pc = "echowrite"
  /\ bitsWritten \in EchoInputs
  /\ bitsRead = <<>>
  /\ capacity \in {MaxEcho, TwoWords}
  /\ \E w \in GarbageWords : buffer = [r \in Runs |-> [k \in 1..Elements(capacity) |-> w]]
  /\ pos = 0
  /\ endPos = 0
  /\ bytes = [r \in Runs |-> <<>>]
  /\ codeSequence = <<>>
  /\ last = ZeroState
  /\ call = NoCall
  /\ CaptureIdle
  /\ DriverIdle
  /\ JumpIdle
  /\ EncodeIdle
  /\ HuffmanIdle
  /\ CompressIdle

EchoUnch == <<emitVars, huffVars, captureVars, driverVars, jumpVars, encodeVars,
              compressVars, bitsWritten, capacity, bytes>>

\* writeBit(bit) with the next bit
EchoWriteBit ==
  /\ pc = "echowrite"
  /\ pos < Len(bitsWritten)
  /\ buffer' \in writeBits({buffer}, pos, bitsWritten[pos + 1], 1)
  /\ pos' = pos + 1
  /\ endPos' = IF pos + 1 > endPos THEN pos + 1 ELSE endPos
  /\ UNCHANGED <<pc, bitsRead>>
  /\ UNCHANGED EchoUnch

\* writeByte(byte) with the byte whose bits are to be written: eight times
\* writeBit(byte & mask > 0), which is writeBit(byte & 1)
EchoWriteByte ==
  /\ pc = "echowrite"
  /\ pos = 0
  /\ Len(bitsWritten) = 8
  /\ buffer' \in writeBits({buffer}, pos, bitsWritten[8], 8)
  /\ pos' = pos + 8
  /\ endPos' = IF pos + 8 > endPos THEN pos + 8 ELSE endPos
  /\ UNCHANGED <<pc, bitsRead>>
  /\ UNCHANGED EchoUnch

\* seek(0) after the last bit
EchoSeek ==
  /\ pc = "echowrite"
  /\ pos = Len(bitsWritten)
  /\ pos' = 0
  /\ pc' = "echoread"
  /\ UNCHANGED <<buffer, endPos, bitsRead>>
  /\ UNCHANGED EchoUnch

\* readBit(): mask = 1 << (pos % 64) shifted as an int, address = pos >> 64,
\* a shift by the width of size_t, which gives pos or 0
EchoReadBit ==
  /\ pc = "echoread"
  /\ pos < Len(bitsWritten)
  /\ \E address \in {pos, 0} : \E mask \in Masks(pos % WordBits) :
       IF address < Elements(capacity)
       THEN /\ bitsRead' = Append(bitsRead, (buffer[1][address + 1] \cap mask) # {})
            /\ UNCHANGED pc
       ELSE /\ pc' = "ub"
            /\ UNCHANGED bitsRead
  /\ pos' = pos + 1
  /\ UNCHANGED <<buffer, endPos>>
  /\ UNCHANGED EchoUnch

\* as many bits have been read as were written
EchoDone ==
  /\ pc = "echoread"
  /\ pos = Len(bitsWritten)
  /\ pc' = "echoed"
  /\ UNCHANGED <<buffer, pos, endPos, bitsRead>>
  /\ UNCHANGED EchoUnch

EchoNext == EchoWriteBit \/ EchoWriteByte \/ EchoSeek \/ EchoReadBit \/ EchoDone

EchoSpec == EchoInit /\ [][EchoNext]_vars

\* C26: the bits read back with readBit after seek(0) are the bits that were
\* written from position 0, in order, with writeBit or as a byte with writeByte
BitRoundTrip == pc = "echoed" => bitsRead = bitsWritten

-----------------------------------------------------------------------------
(* encodeBitstreamDynamic: the data streams and their inline jump operands *)

MaxEncodeSongs == 1    \* most subsongs given to encodeBitstreamDynamic
MaxRuns == 4           \* most positions recorded in positionMap for one pair

dataOffset == 768      \* 0x0300, as writeTrackDataTIAZip calls it
blockSize == 4096 * 8  \* the capacity of a data stream, in bits
OperandBits == 15      \* dataStream->writeBits(address, 15)

\* the bits written for a run of codes that begins at a recorded position:
\* a single inline JUMP, or a long run of codes
RunBits == {1 + OperandBits, 9000}

\* the field writeBits(value, 15) stores: the low 15 bits of the value
InlineOperand(value) == value % 2^OperandBits

\* size_t bytesUsed()
bytesUsed(e) == IF e % 8 > 0 THEN (e \div 8) + 1 ELSE e \div 8

\* streamDataOffset = dataOffset << 3, and new Bitstream(blockSize) for the
\* first pair
EncodeInit ==
  /\ pc = "encode"
  /\ numSongs \in 1..MaxEncodeSongs
  /\ subsong = 0
  /\ channel = 0
  /\ abortRequested = FALSE
  /\ diverged = FALSE
  /\ goResult = FALSE
  /\ streamDataOffset = dataOffset * 8
  /\ positionMap = <<>>
  /\ patched = NoPatch
  /\ capacity = blockSize
  /\ pos = 0
  /\ endPos = 0
  /\ buffer = [r \in Runs |-> <<>>]
  /\ bytes = [r \in Runs |-> <<>>]
  /\ codeSequence = <<>>
  /\ last = ZeroState
  /\ call = NoCall
  /\ CaptureIdle
  /\ JumpIdle
  /\ EchoIdle
  /\ HuffmanIdle
  /\ CompressIdle

EncodeUnch == <<emitVars, huffVars, captureVars, jumpVars, echoVars, compressVars,
                numSongs, abortRequested, diverged, goResult, buffer, capacity, bytes>>

\* positionMap[i] = dataStream->position() + streamDataOffset, then the bits
\* of the codes from i on; writeBit asserts pos < capacity
EncodeCodes ==
  /\ pc = "encode"
  /\ Len(positionMap) < MaxRuns
  /\ \E bits \in RunBits :
       IF pos + bits <= capacity
       THEN /\ positionMap' = Append(positionMap, pos + streamDataOffset)
            /\ pos' = pos + bits
            /\ endPos' = IF pos + bits > endPos THEN pos + bits ELSE endPos
            /\ UNCHANGED pc
       ELSE /\ pc' = "assert"
            /\ UNCHANGED <<positionMap, pos, endPos>>
  /\ UNCHANGED <<subsong, channel, streamDataOffset, patched>>
  /\ UNCHANGED EncodeUnch

\* for (auto& x : dataStreamPointerMap): address = positionMap[x.second],
\* writeBits(address, 15) over the operand written in the first pass
PatchOperand ==
  /\ pc \in {"encode", "patch"}
  /\ \E target \in 1..Len(positionMap) :
       patched' = [address |-> positionMap[target],
                   operand |-> InlineOperand(positionMap[target])]
  /\ pc' = "patch"
  /\ UNCHANGED <<subsong, channel, streamDataOffset, positionMap, pos, endPos>>
  /\ UNCHANGED EncodeUnch

\* streamDataOffset += (dataStream->bytesUsed() << 3), then the next pair
\* with a new Bitstream(blockSize)
EndPair ==
  /\ pc \in {"encode", "patch"}
  /\ streamDataOffset' = streamDataOffset + bytesUsed(endPos) * 8
  /\ positionMap' = <<>>
  /\ pos' = 0
  /\ endPos' = 0
  /\ IF channel + 1 < Channels
     THEN /\ channel' = channel + 1
          /\ pc' = "encode"
          /\ UNCHANGED subsong
     ELSE /\ channel' = 0
          /\ subsong' = subsong + 1
          /\ pc' = IF subsong + 1 < numSongs THEN "encode" ELSE "encoded"
  /\ UNCHANGED patched
  /\ UNCHANGED EncodeUnch

EncodeNext == EncodeCodes \/ PatchOperand \/ EndPair

EncodeSpec == EncodeInit /\ [][EncodeNext]_vars

\* C30: every address the patch pass writes as an inline jump operand is
\* smaller than 2^15, so the operand written is the address
InlineAddressFits ==
  pc = "patch" => /\ patched.address < 2^OperandBits
                  /\ patched.operand = patched.address

=============================================================================
